---------------------------- MODULE Spec2Model ----------------------------
(***************************************************************************)
(* A model of rshapes.c (raylib): the shape-texture binding, the drawing   *)
(* functions seen through the immediate-mode calls they make on the rlgl   *)
(* backend, and the collision queries.                                     *)
(*                                                                         *)
(* Numbers.  A float length is an integer count of twentieths (so that     *)
(* 0.1, 0.25 and 0.5 are all exact): 20 stands for 1.0f.  Angles are whole *)
(* degrees.  Arithmetic on them is exact; float rounding is not modelled.  *)
(* A vertex whose coordinates go through cosf/sinf is kept symbolic, as    *)
(* the centre, the radius and the angle it is computed from.               *)
(***************************************************************************)
EXTENDS Integers, Sequences, FiniteSets, TLC

VARIABLES
    SUPPORT_QUADS_DRAW_MODE,  \* build: TRUE when the macro is defined
    target,                   \* build: what (int) of a NaN / infinite float yields
    texShapes,                \* the global RlTexture2D texShapes
    texShapesRec,             \* the global RlRectangle texShapesRec
    rlBatch,                  \* backend: kind of the open batch, or "none"
    rlTexture,                \* backend: texture id set by the last rlSetTexture
    rlScoped,                 \* backend: FALSE once a call arrived out of scope
    calls,                    \* the backend calls made by the last operation
    pc,                       \* "ready": the caller is between two calls;
                              \* "returned": a call has just returned
    op,                       \* the last operation and its arguments
    locals,                   \* locals of the last operation that the properties speak of
    result                    \* what the last operation returned

vars == <<SUPPORT_QUADS_DRAW_MODE, target, texShapes, texShapesRec,
          rlBatch, rlTexture, rlScoped, calls, pc, op, locals, result>>

---------------------------------------------------------------------------
(* Bounds of the model *)

\* loops of more than MaxUnroll iterations are kept as one summary call
MaxUnroll == 64

---------------------------------------------------------------------------
(* Numbers *)

\* SMOOTH_CIRCLE_ERROR_RATE 0.5f, in twentieths
SMOOTH_CIRCLE_ERROR_RATE == 10

\* 1.0f in twentieths
One == 2 * SMOOTH_CIRCLE_ERROR_RATE

\* the 0.1f that a radius <= 0 is replaced by
MinRadius == One \div 10

INT_MAX == 2147483647
INT_MIN == (-2147483647) - 1

Abs(x) == IF x < 0 THEN -x ELSE x
MinOf(a, b) == IF a < b THEN a ELSE b
MaxOf(a, b) == IF a > b THEN a ELSE b

\* ceilf(a/b) for a >= 0, b > 0, as an int
CeilDiv(a, b) == (a + b - 1) \div b

\* (int) of a float that is NaN: undefined behaviour in C; what the target's
\* conversion instruction yields (x86 cvttss2si: INT_MIN, AArch64 fcvtzs: 0,
\* RISC-V fcvt.w.s: INT_MAX)
CastNaN == CASE target = "x86" -> INT_MIN [] target = "arm" -> 0 [] OTHER -> INT_MAX

\* (int) of +infinity: undefined behaviour in C (x86: INT_MIN, the others saturate)
CastInf == IF target = "x86" THEN INT_MIN ELSE INT_MAX

Targets == {"x86", "arm", "riscv"}

---------------------------------------------------------------------------
(* The segment count of an arc *)

\* CosTurn[n - 1] = floor(10000 * cos(2*PI/n)) for n = 2 .. 40
CosTurn == <<-10000, -5000, 0, 3090, 5000, 6234, 7071, 7660, 8090, 8412,
             8660, 8854, 9009, 9135, 9238, 9324, 9396, 9458, 9510, 9555,
             9594, 9629, 9659, 9685, 9709, 9730, 9749, 9766, 9781, 9795,
             9807, 9819, 9829, 9839, 9848, 9856, 9863, 9870, 9876>>

\* ceilf(2*PI/acosf(2*powf(1 - SMOOTH_CIRCLE_ERROR_RATE/radius, 2) - 1)):
\* "nan" when the argument of acosf is above 1 (or radius is 0: 0.5f/0 is
\* infinite), "inf" when it is exactly 1 (acosf gives 0), otherwise the least
\* n with acosf(c) >= 2*PI/n, which is the least n >= 2 with c <= cos(2*PI/n).
\* c = (2*(radius - E)^2 - radius^2) / radius^2
CeilTurns(radius) ==
    LET e    == SMOOTH_CIRCLE_ERROR_RATE
        cnum == 2 * (radius - e) * (radius - e) - radius * radius
        cden == radius * radius
    IN  IF radius = 0 \/ cnum > cden THEN [kind |-> "nan", n |-> 0]
        ELSE IF cnum = cden THEN [kind |-> "inf", n |-> 0]
        ELSE [kind |-> "fin",
              n |-> 1 + CHOOSE k \in 1..Len(CosTurn) :
                          /\ cnum * 10000 <= CosTurn[k] * cden
                          /\ \A j \in 1..(k - 1) : cnum * 10000 > CosTurn[j] * cden]

\* segments = (int)((endAngle - startAngle)*ceilf(2*PI/th)/360), span >= 0
ErrorRateSegments(radius, span) ==
    LET t == CeilTurns(radius)
    IN  CASE t.kind = "nan" -> CastNaN
          [] t.kind = "inf" -> IF span = 0 THEN CastNaN ELSE CastInf
          [] OTHER          -> (span * t.n) \div 360

\* int minSegments = (int)ceilf((endAngle - startAngle)/90), span >= 0
MinSegments(span) == CeilDiv(span, 90)

\* only a request of 0 or less computed, a positive one under the minimum
\* raised to the minimum
ArcSegmentsZeroSentinel(radius, span, segments) ==
    LET minSegments == MinSegments(span)
        computed    == ErrorRateSegments(radius, span)
    IN  IF segments <= 0
        THEN (IF computed <= 0 THEN minSegments ELSE computed)
        ELSE IF segments < minSegments THEN minSegments ELSE segments

\* The segment count the arc functions iterate with, from the radius used in
\* the error-rate formula, the normalized span and the requested count
ArcSegments(radius, span, segments) ==
    LET minSegments == MinSegments(span)
        computed    == ErrorRateSegments(radius, span)
    IN  IF segments < minSegments
        THEN (IF computed <= 0 THEN minSegments ELSE computed)
        ELSE segments

---------------------------------------------------------------------------
(* The backend calls (rlgl.h), recorded as tuples *)

rlBegin(mode) == <<"rlBegin", mode>>
rlEnd == <<"rlEnd">>
rlSetTexture(id) == <<"rlSetTexture", id>>
rlNormal3f == <<"rlNormal3f", 0, 0, 1>>
rlColor4ub(color) == <<"rlColor4ub", color>>
rlTexCoord2f(u, v) == <<"rlTexCoord2f", u, v>>

\* rlVertex2f(x, y) of plain coordinates
rlVertex2f(x, y) == <<"rlVertex2f", <<"xy", x, y>>>>

\* the angle startAngle + k*stepLength, stepLength = span/segments, kept as
\* its four terms (segments may be 0: the C code then divides by zero and
\* never uses the step)
Angle(startAngle, k, span, segments) == <<startAngle, k, span, segments>>

\* rlVertex2f(center.x + cosf(DEG2RAD*angle)*radius, center.y + sinf(DEG2RAD*angle)*radius)
rlVertexArc(center, radius, angle) ==
    <<"rlVertex2f", <<"arc", center.x, center.y, radius, angle>>>>

\* the calls that are legal only inside rlBegin .. rlEnd
VertexLevel == {"rlVertex2f", "rlTexCoord2f", "rlColor4ub", "rlNormal3f"}

\* The iterations of a loop of n rounds that are written out: all of them,
\* or the first two when the loop is summarised
Iter(n) == IF n > MaxUnroll THEN {0, 1} ELSE 0..(n - 1)

\* for (i = 0; i < n; i++) body[i]: the calls of all rounds in order (every
\* round of a loop makes the same number of calls); a loop of more than
\* MaxUnroll rounds is recorded as one "rlLoop" entry holding the number of
\* rounds and the calls of the first two
Loop(n, body) ==
    IF n <= 0 THEN <<>>
    ELSE IF n > MaxUnroll THEN << <<"rlLoop", n, body[0], body[1]>> >>
    ELSE LET len == Len(body[0])
         IN  [k \in 1..(n * len) |-> body[(k - 1) \div len][((k - 1) % len) + 1]]

\* The four texture coordinates taken from the shape-texture binding
TexTL == rlTexCoord2f(<<texShapesRec.x, texShapes.width>>,
                      <<texShapesRec.y, texShapes.height>>)
TexBL == rlTexCoord2f(<<texShapesRec.x, texShapes.width>>,
                      <<texShapesRec.y + texShapesRec.height, texShapes.height>>)
TexBR == rlTexCoord2f(<<texShapesRec.x + texShapesRec.width, texShapes.width>>,
                      <<texShapesRec.y + texShapesRec.height, texShapes.height>>)
TexTR == rlTexCoord2f(<<texShapesRec.x + texShapesRec.width, texShapes.width>>,
                      <<texShapesRec.y, texShapes.height>>)

QuadsBatchNoUnbind(inner) ==
    <<rlSetTexture(texShapes.id), rlBegin("RLGL_QUADS")>> \o inner \o <<rlEnd>>

\* rlSetTexture(texShapes.id); rlBegin(RLGL_QUADS); ... rlEnd(); rlSetTexture(0);
QuadsBatch(inner) ==
    <<rlSetTexture(texShapes.id), rlBegin("RLGL_QUADS")>> \o inner
        \o <<rlEnd, rlSetTexture(0)>>

\* rlBegin(RLGL_TRIANGLES); ... rlEnd();
TrianglesBatch(inner) == <<rlBegin("RLGL_TRIANGLES")>> \o inner \o <<rlEnd>>

\* rlBegin(RLGL_LINES); ... rlEnd();
LinesBatch(inner) == <<rlBegin("RLGL_LINES")>> \o inner \o <<rlEnd>>

---------------------------------------------------------------------------
(* The backend's state as the calls drive it *)

\* the last of the calls cs[1] .. cs[i - 1] that is one of names, 0 if none
LastCall(cs, i, names) ==
    LET js == {j \in 1..(i - 1) : cs[j][1] \in names}
    IN  IF js = {} THEN 0 ELSE CHOOSE j \in js : \A k \in js : k <= j

\* the batch that is open when the call cs[i] arrives, "none" if none is
RlBatchBefore(st, cs, i) ==
    LET j == LastCall(cs, i, {"rlBegin", "rlEnd"})
    IN  IF j = 0 THEN st.batch
        ELSE IF cs[j][1] = "rlBegin" THEN cs[j][2] ELSE "none"

\* the call c respects the scoping of batches when it arrives with batch open
RlCallScoped(batch, c) ==
    CASE c[1] = "rlBegin"      -> batch = "none"
      [] c[1] = "rlEnd"        -> batch # "none"
      [] c[1] = "rlSetTexture" -> TRUE
      [] c[1] = "rlLoop"       ->
            /\ batch # "none"
            /\ \A i \in 1..Len(c[3]) : c[3][i][1] \in VertexLevel
            /\ \A i \in 1..Len(c[4]) : c[4][i][1] \in VertexLevel
      [] OTHER                 -> batch # "none"

\* the backend's state after the calls cs
RlRun(st, cs) ==
    LET t == LastCall(cs, Len(cs) + 1, {"rlSetTexture"})
    IN  [batch   |-> RlBatchBefore(st, cs, Len(cs) + 1),
         texture |-> IF t = 0 THEN st.texture ELSE cs[t][2],
         scoped  |-> /\ st.scoped
                     /\ \A i \in 1..Len(cs) :
                            RlCallScoped(RlBatchBefore(st, cs, i), cs[i])]

---------------------------------------------------------------------------
(* The shape-texture binding *)

DefaultTexture == [id |-> 1, width |-> 1, height |-> 1, mipmaps |-> 1, format |-> 7]
\* a source rectangle left zero-initialised
DefaultRecZero == [x |-> 0, y |-> 0, width |-> 0, height |-> 0]

\* RlRectangle texShapesRec = { 0.0f, 0.0f, 1.0f, 1.0f }
DefaultRec == [x |-> 0, y |-> 0, width |-> One, height |-> One]

SetShapesTextureAlways(texture, source) == [texShapes |-> texture, texShapesRec |-> source]

\* void SetShapesTexture(RlTexture2D texture, RlRectangle source)
SetShapesTexture(texture, source) ==
    IF (texture.id = 0) \/ (source.width = 0) \/ (source.height = 0)
    THEN [texShapes |-> DefaultTexture, texShapesRec |-> DefaultRec]
    ELSE [texShapes |-> texture, texShapesRec |-> source]

---------------------------------------------------------------------------
(* Circle sectors and rings *)

\* if (radius <= 0.0f) radius = 0.1f;
ClampRadius(radius) == IF radius <= 0 THEN MinRadius ELSE radius

ArcStartNoSwap(startAngle, endAngle) == startAngle

\* if (endAngle < startAngle) { swap }: the start angle after it
ArcStart(startAngle, endAngle) == IF endAngle < startAngle THEN endAngle ELSE startAngle

\* ... and the end angle after it
ArcEnd(startAngle, endAngle) == IF endAngle < startAngle THEN startAngle ELSE endAngle

\* The locals of RL_DrawCircleSector / RL_DrawCircleSectorLines when the
\* drawing loop starts; divisor is the radius SMOOTH_CIRCLE_ERROR_RATE was
\* divided by ("none" when the formula was not evaluated)
SectorLocals(radius0, startAngle0, endAngle0, segments0) ==
    LET radius     == ClampRadius(radius0)
        startAngle == ArcStart(startAngle0, endAngle0)
        endAngle   == ArcEnd(startAngle0, endAngle0)
        span       == endAngle - startAngle
    IN  [radius |-> radius, startAngle |-> startAngle, endAngle |-> endAngle,
         minSegments |-> MinSegments(span),
         segments |-> ArcSegments(radius, span, segments0),
         divisor |-> IF segments0 < MinSegments(span) THEN <<radius>> ELSE <<>>]

\* void RL_DrawCircleSector(center, radius, startAngle, endAngle, segments, color)
RL_DrawCircleSector(center, radius0, startAngle0, endAngle0, segments0, color) ==
    LET l          == SectorLocals(radius0, startAngle0, endAngle0, segments0)
        radius     == l.radius
        startAngle == l.startAngle
        span       == l.endAngle - l.startAngle
        segments   == l.segments
        A(k)       == Angle(startAngle, k, span, segments)
        pairs      == segments \div 2
    IN  IF SUPPORT_QUADS_DRAW_MODE
        THEN QuadsBatch(
                Loop(pairs, [i \in Iter(pairs) |->
                    <<rlColor4ub(color),
                      TexTL, rlVertex2f(center.x, center.y),
                      TexTR, rlVertexArc(center, radius, A(2 * i + 2)),
                      TexBR, rlVertexArc(center, radius, A(2 * i + 1)),
                      TexBL, rlVertexArc(center, radius, A(2 * i))>>])
                \o (IF segments % 2 = 1
                    THEN <<rlColor4ub(color),
                           TexTL, rlVertex2f(center.x, center.y),
                           TexBR, rlVertexArc(center, radius, A(2 * pairs + 1)),
                           TexBL, rlVertexArc(center, radius, A(2 * pairs)),
                           TexTR, rlVertex2f(center.x, center.y)>>
                    ELSE <<>>))
        ELSE TrianglesBatch(
                Loop(segments, [i \in Iter(segments) |->
                    <<rlColor4ub(color),
                      rlVertex2f(center.x, center.y),
                      rlVertexArc(center, radius, A(i + 1)),
                      rlVertexArc(center, radius, A(i))>>]))

\* bool showCapLines = true;
showCapLines == TRUE

\* void RL_DrawCircleSectorLines(center, radius, startAngle, endAngle, segments, color)
RL_DrawCircleSectorLines(center, radius0, startAngle0, endAngle0, segments0, color) ==
    LET l          == SectorLocals(radius0, startAngle0, endAngle0, segments0)
        radius     == l.radius
        startAngle == l.startAngle
        span       == l.endAngle - l.startAngle
        segments   == l.segments
        A(k)       == Angle(startAngle, k, span, segments)
        last       == IF segments > 0 THEN segments ELSE 0
    IN  LinesBatch(
            (IF showCapLines
             THEN <<rlColor4ub(color), rlVertex2f(center.x, center.y),
                    rlVertexArc(center, radius, A(0))>>
             ELSE <<>>)
            \o Loop(segments, [i \in Iter(segments) |->
                    <<rlColor4ub(color),
                      rlVertexArc(center, radius, A(i)),
                      rlVertexArc(center, radius, A(i + 1))>>])
            \o (IF showCapLines
                THEN <<rlColor4ub(color), rlVertex2f(center.x, center.y),
                       rlVertexArc(center, radius, A(last))>>
                ELSE <<>>))

\* if (outerRadius < innerRadius) { swap; if (outerRadius <= 0.0f) outerRadius = 0.1f; }
RingRadii(innerRadius, outerRadius) ==
    IF outerRadius < innerRadius
    THEN [inner |-> outerRadius,
          outer |-> IF innerRadius <= 0 THEN MinRadius ELSE innerRadius]
    ELSE [inner |-> innerRadius, outer |-> outerRadius]

RingLocalsMinSegments(innerRadius0, outerRadius0, startAngle0, endAngle0, segments0) ==
    LET radii      == RingRadii(innerRadius0, outerRadius0)
        startAngle == ArcStart(startAngle0, endAngle0)
        endAngle   == ArcEnd(startAngle0, endAngle0)
        span       == endAngle - startAngle
    IN  [innerRadius |-> radii.inner, outerRadius |-> radii.outer,
         startAngle |-> startAngle, endAngle |-> endAngle,
         minSegments |-> MinSegments(span),
         segments |-> IF segments0 < MinSegments(span) THEN MinSegments(span) ELSE segments0,
         divisor |-> <<>>]

\* The locals of RL_DrawRing / RL_DrawRingLines after the segment count is
\* settled (the code is past the startAngle == endAngle return)
RingLocals(innerRadius0, outerRadius0, startAngle0, endAngle0, segments0) ==
    LET radii      == RingRadii(innerRadius0, outerRadius0)
        startAngle == ArcStart(startAngle0, endAngle0)
        endAngle   == ArcEnd(startAngle0, endAngle0)
        span       == endAngle - startAngle
    IN  [innerRadius |-> radii.inner, outerRadius |-> radii.outer,
         startAngle |-> startAngle, endAngle |-> endAngle,
         minSegments |-> MinSegments(span),
         segments |-> ArcSegments(radii.outer, span, segments0),
         divisor |-> IF segments0 < MinSegments(span) THEN <<radii.outer>> ELSE <<>>]

\* void RL_DrawRing(center, innerRadius, outerRadius, startAngle, endAngle, segments, color)
RL_DrawRing(center, innerRadius0, outerRadius0, startAngle0, endAngle0, segments0, color) ==
    LET l           == RingLocals(innerRadius0, outerRadius0, startAngle0, endAngle0, segments0)
        innerRadius == l.innerRadius
        outerRadius == l.outerRadius
        startAngle  == l.startAngle
        endAngle    == l.endAngle
        span        == endAngle - startAngle
        segments    == l.segments
        A(k)        == Angle(startAngle, k, span, segments)
    IN  IF startAngle0 = endAngle0 THEN <<>>
        ELSE IF innerRadius <= 0
        THEN RL_DrawCircleSector(center, outerRadius, startAngle, endAngle, segments, color)
        ELSE IF SUPPORT_QUADS_DRAW_MODE
        THEN QuadsBatch(
                Loop(segments, [i \in Iter(segments) |->
                    <<rlColor4ub(color),
                      TexBL, rlVertexArc(center, outerRadius, A(i)),
                      TexTL, rlVertexArc(center, innerRadius, A(i)),
                      TexTR, rlVertexArc(center, innerRadius, A(i + 1)),
                      TexBR, rlVertexArc(center, outerRadius, A(i + 1))>>]))
        ELSE TrianglesBatch(
                Loop(segments, [i \in Iter(segments) |->
                    <<rlColor4ub(color),
                      rlVertexArc(center, innerRadius, A(i)),
                      rlVertexArc(center, innerRadius, A(i + 1)),
                      rlVertexArc(center, outerRadius, A(i)),
                      rlVertexArc(center, innerRadius, A(i + 1)),
                      rlVertexArc(center, outerRadius, A(i + 1)),
                      rlVertexArc(center, outerRadius, A(i))>>]))

\* void RL_DrawRingLines(center, innerRadius, outerRadius, startAngle, endAngle, segments, color)
RL_DrawRingLines(center, innerRadius0, outerRadius0, startAngle0, endAngle0, segments0, color) ==
    LET l           == RingLocals(innerRadius0, outerRadius0, startAngle0, endAngle0, segments0)
        innerRadius == l.innerRadius
        outerRadius == l.outerRadius
        startAngle  == l.startAngle
        endAngle    == l.endAngle
        span        == endAngle - startAngle
        segments    == l.segments
        A(k)        == Angle(startAngle, k, span, segments)
        last        == IF segments > 0 THEN segments ELSE 0
    IN  IF startAngle0 = endAngle0 THEN <<>>
        ELSE IF innerRadius <= 0
        THEN RL_DrawCircleSectorLines(center, outerRadius, startAngle, endAngle, segments, color)
        ELSE LinesBatch(
            (IF showCapLines
             THEN <<rlColor4ub(color),
                    rlVertexArc(center, outerRadius, A(0)),
                    rlVertexArc(center, innerRadius, A(0))>>
             ELSE <<>>)
            \o Loop(segments, [i \in Iter(segments) |->
                    <<rlColor4ub(color),
                      rlVertexArc(center, outerRadius, A(i)),
                      rlVertexArc(center, outerRadius, A(i + 1)),
                      rlVertexArc(center, innerRadius, A(i)),
                      rlVertexArc(center, innerRadius, A(i + 1))>>])
            \o (IF showCapLines
                THEN <<rlColor4ub(color),
                       rlVertexArc(center, outerRadius, A(last)),
                       rlVertexArc(center, innerRadius, A(last))>>
                ELSE <<>>))

---------------------------------------------------------------------------
(* Pixels, lines and point strips *)

\* rlVertex2f(points[i].x, points[i].y) of an RlVector2 held in an array
rlVertexPt(p) == <<"rlVertex2f", p>>

\* an RlVector2 with plain coordinates, as an array element
Vec(x, y) == <<"xy", x, y>>

\* void RL_DrawPixelV(RlVector2 position, RlColor color)
RL_DrawPixelV(position, color) ==
    IF SUPPORT_QUADS_DRAW_MODE
    THEN QuadsBatch(
            <<rlNormal3f, rlColor4ub(color),
              TexTL, rlVertex2f(position.x, position.y),
              TexBL, rlVertex2f(position.x, position.y + One),
              TexBR, rlVertex2f(position.x + One, position.y + One),
              TexTR, rlVertex2f(position.x + One, position.y)>>)
    ELSE TrianglesBatch(
            <<rlColor4ub(color),
              rlVertex2f(position.x, position.y),
              rlVertex2f(position.x, position.y + One),
              rlVertex2f(position.x + One, position.y),
              rlVertex2f(position.x + One, position.y),
              rlVertex2f(position.x, position.y + One),
              rlVertex2f(position.x + One, position.y + One)>>)

\* void RL_DrawPixel(int posX, int posY, RlColor color)
RL_DrawPixel(posX, posY, color) ==
    RL_DrawPixelV([x |-> posX * One, y |-> posY * One], color)

\* void RL_DrawLineV(RlVector2 startPos, RlVector2 endPos, RlColor color)
RL_DrawLineV(startPos, endPos, color) ==
    LinesBatch(<<rlColor4ub(color),
                 rlVertex2f(startPos.x, startPos.y),
                 rlVertex2f(endPos.x, endPos.y)>>)

\* void RL_DrawLine(int startPosX, int startPosY, int endPosX, int endPosY, RlColor color)
RL_DrawLine(startPosX, startPosY, endPosX, endPosY, color) ==
    LinesBatch(<<rlColor4ub(color),
                 rlVertex2f(startPosX * One, startPosY * One),
                 rlVertex2f(endPosX * One, endPosY * One)>>)

\* every triangle sent in the order of the even rounds
RL_DrawTriangleStripOneWinding(points, pointCount, color) ==
    IF pointCount >= 3
    THEN TrianglesBatch(
            <<rlColor4ub(color)>>
            \o Loop(pointCount - 2, [j \in Iter(pointCount - 2) |->
                    LET i == j + 2
                    IN  <<rlVertexPt(points[i + 1]), rlVertexPt(points[i - 2 + 1]),
                          rlVertexPt(points[i - 1 + 1])>>]))
    ELSE <<>>

\* void RL_DrawTriangleStrip(RlVector2 *points, int pointCount, RlColor color)
\* points[i] of the C array is points[i + 1] here
RL_DrawTriangleStrip(points, pointCount, color) ==
    IF pointCount >= 3
    THEN TrianglesBatch(
            <<rlColor4ub(color)>>
            \o Loop(pointCount - 2, [j \in Iter(pointCount - 2) |->
                    LET i == j + 2
                    IN  IF i % 2 = 0
                        THEN <<rlVertexPt(points[i + 1]), rlVertexPt(points[i - 2 + 1]),
                               rlVertexPt(points[i - 1 + 1])>>
                        ELSE <<rlVertexPt(points[i + 1]), rlVertexPt(points[i - 1 + 1]),
                               rlVertexPt(points[i - 2 + 1])>>]))
    ELSE <<>>

\* void RL_DrawTriangleFan(RlVector2 *points, int pointCount, RlColor color)
RL_DrawTriangleFan(points, pointCount, color) ==
    IF pointCount >= 3
    THEN QuadsBatch(
            <<rlColor4ub(color)>>
            \o Loop(pointCount - 2, [j \in Iter(pointCount - 2) |->
                    LET i == j + 1
                    IN  <<TexTL, rlVertexPt(points[0 + 1]),
                          TexBL, rlVertexPt(points[i + 1]),
                          TexBR, rlVertexPt(points[i + 1 + 1]),
                          TexTR, rlVertexPt(points[i + 1 + 1])>>]))
    ELSE <<>>

\* void RL_DrawLineStrip(RlVector2 *points, int pointCount, RlColor color)
RL_DrawLineStrip(points, pointCount, color) ==
    IF pointCount >= 2
    THEN LinesBatch(
            <<rlColor4ub(color)>>
            \o Loop(pointCount - 1, [i \in Iter(pointCount - 1) |->
                    <<rlVertexPt(points[i + 1]), rlVertexPt(points[i + 1 + 1])>>]))
    ELSE <<>>

\* A rim point of a thick line: base -/+ radius, radius = (-scale*delta.y,
\* scale*delta.x), scale = thick/(2*length); the square root stays symbolic
RimPoint(base, delta, thick, sign) ==
    <<"rim", base.x, base.y, delta.x, delta.y, thick, sign>>

\* void RL_DrawLineEx(RlVector2 startPos, RlVector2 endPos, float thick, RlColor color)
\* length > 0 exactly when delta is not (0, 0)
RL_DrawLineEx(startPos, endPos, thick, color) ==
    LET delta == [x |-> endPos.x - startPos.x, y |-> endPos.y - startPos.y]
    IN  IF (delta.x # 0 \/ delta.y # 0) /\ thick > 0
        THEN RL_DrawTriangleStrip(
                <<RimPoint(startPos, delta, thick, -1), RimPoint(startPos, delta, thick, 1),
                  RimPoint(endPos, delta, thick, -1), RimPoint(endPos, delta, thick, 1)>>,
                4, color)
        ELSE <<>>

---------------------------------------------------------------------------
(* Circles and ellipses drawn every 10 degrees *)

\* the angle of i degrees, i = 10*k, written as 0 + k*(360/36)
TenDegrees(k) == Angle(0, k, 360, 36)

\* rlVertex2f(centerX + cosf(DEG2RAD*i)*radiusH, centerY + sinf(DEG2RAD*i)*radiusV)
rlVertexEllipse(centerX, centerY, radiusH, radiusV, angle) ==
    <<"rlVertex2f", <<"ellipse", centerX, centerY, radiusH, radiusV, angle>>>>

\* void RL_DrawCircleV(RlVector2 center, float radius, RlColor color)
RL_DrawCircleV(center, radius, color) ==
    RL_DrawCircleSector(center, radius, 0, 360, 36, color)

\* void RL_DrawCircle(int centerX, int centerY, float radius, RlColor color)
RL_DrawCircle(centerX, centerY, radius, color) ==
    RL_DrawCircleV([x |-> centerX * One, y |-> centerY * One], radius, color)

\* void RL_DrawCircleGradient(int centerX, int centerY, float radius, color1, color2)
RL_DrawCircleGradient(centerX, centerY, radius, color1, color2) ==
    LET center == [x |-> centerX * One, y |-> centerY * One]
    IN  TrianglesBatch(
            Loop(36, [k \in Iter(36) |->
                <<rlColor4ub(color1), rlVertex2f(center.x, center.y),
                  rlColor4ub(color2), rlVertexArc(center, radius, TenDegrees(k + 1)),
                  rlColor4ub(color2), rlVertexArc(center, radius, TenDegrees(k))>>]))

\* void RL_DrawCircleLines(int centerX, int centerY, float radius, RlColor color)
RL_DrawCircleLines(centerX, centerY, radius, color) ==
    LET center == [x |-> centerX * One, y |-> centerY * One]
    IN  LinesBatch(
            <<rlColor4ub(color)>>
            \o Loop(36, [k \in Iter(36) |->
                <<rlVertexArc(center, radius, TenDegrees(k)),
                  rlVertexArc(center, radius, TenDegrees(k + 1))>>]))

\* void RL_DrawEllipse(int centerX, int centerY, float radiusH, float radiusV, RlColor color)
RL_DrawEllipse(centerX, centerY, radiusH, radiusV, color) ==
    TrianglesBatch(
        Loop(36, [k \in Iter(36) |->
            <<rlColor4ub(color), rlVertex2f(centerX * One, centerY * One),
              rlVertexEllipse(centerX * One, centerY * One, radiusH, radiusV, TenDegrees(k + 1)),
              rlVertexEllipse(centerX * One, centerY * One, radiusH, radiusV, TenDegrees(k))>>]))

\* void RL_DrawEllipseLines(int centerX, int centerY, float radiusH, float radiusV, RlColor color)
RL_DrawEllipseLines(centerX, centerY, radiusH, radiusV, color) ==
    LinesBatch(
        Loop(36, [k \in Iter(36) |->
            <<rlColor4ub(color),
              rlVertexEllipse(centerX * One, centerY * One, radiusH, radiusV, TenDegrees(k + 1)),
              rlVertexEllipse(centerX * One, centerY * One, radiusH, radiusV, TenDegrees(k))>>]))

---------------------------------------------------------------------------
(* Thick curved lines *)

BEZIER_LINE_DIVISIONS == 24

\* A rim point of a curve's strip: the sample `at` (0 = startPos) moved by
\* size*(dy, -dx) (side 1) or by size*(-dy, dx) (side -1), where (dx, dy) is
\* sample seg minus sample seg - 1 and size = 0.5f*thick/sqrtf(dx*dx + dy*dy)
BezierRim(curve, at, seg, side) == <<"bezier", curve, at, seg, side>>

\* The curve a rim point belongs to is <<kind, startPos.x, startPos.y, endPos.x,
\* endPos.y, control points ..., thick>>.  Its samples are kept exactly, as
\* numerators over BezierDen: t = i/BEZIER_LINE_DIVISIONS.
BezierDen(curve) ==
    CASE curve[1] = "ease"  -> 2 * (BEZIER_LINE_DIVISIONS \div 2) * (BEZIER_LINE_DIVISIONS \div 2)
                                 * (BEZIER_LINE_DIVISIONS \div 2)
      [] curve[1] = "quad"  -> BEZIER_LINE_DIVISIONS * BEZIER_LINE_DIVISIONS
      [] curve[1] = "cubic" -> BEZIER_LINE_DIVISIONS * BEZIER_LINE_DIVISIONS
                                 * BEZIER_LINE_DIVISIONS

\* `current` in round i of the loop (`previous` of round 1, startPos, for i = 0):
\* EaseCubicInOut on y and equal steps on x for RL_DrawLineBezier, the
\* Bernstein weights a, b, c (, d) for the other two
BezierSample(curve, i) ==
    LET den == BezierDen(curve)
        n   == BEZIER_LINE_DIVISIONS
        u   == n - i
    IN  IF i = 0 THEN [x |-> curve[2] * den, y |-> curve[3] * den]
        ELSE CASE curve[1] = "ease" ->
                    LET h == n \div 2
                        c == curve[5] - curve[3]
                    IN  [x |-> curve[2] * den + i * (curve[4] - curve[2]) * (den \div n),
                         y |-> IF i < h THEN c * i * i * i + curve[3] * den
                               ELSE c * ((i - n) * (i - n) * (i - n) + 2 * h * h * h)
                                      + curve[3] * den]
               [] curve[1] = "quad" ->
                    [x |-> u * u * curve[2] + 2 * u * i * curve[6] + i * i * curve[4],
                     y |-> u * u * curve[3] + 2 * u * i * curve[7] + i * i * curve[5]]
               [] curve[1] = "cubic" ->
                    [x |-> u * u * u * curve[2] + 3 * u * u * i * curve[6]
                              + 3 * u * i * i * curve[8] + i * i * i * curve[4],
                     y |-> u * u * u * curve[3] + 3 * u * u * i * curve[7]
                              + 3 * u * i * i * curve[9] + i * i * i * curve[5]]

\* the greatest common divisor of two naturals
RECURSIVE GCD(_, _)
GCD(a, b) == IF b = 0 THEN a ELSE GCD(b, a % b)

\* (dx, dy) = current - previous in round seg, divided by the greatest common
\* divisor of its numerators: size*(dy, -dx) does not depend on the length of
\* (dx, dy)
BezierDelta(curve, seg) ==
    LET dx == BezierSample(curve, seg).x - BezierSample(curve, seg - 1).x
        dy == BezierSample(curve, seg).y - BezierSample(curve, seg - 1).y
        g  == GCD(Abs(dx), Abs(dy))
    IN  IF g = 0 THEN [dx |-> 0, dy |-> 0] ELSE [dx |-> dx \div g, dy |-> dy \div g]

\* what a rim point is moved by: side*(dy, -dx)*size with
\* size = 0.5f*thick/sqrtf(dx*dx + dy*dy), kept as the vector
\* (nx, ny)*num/sqrt(den2); den2 = 0 is the division by zero
BezierOffset(curve, seg, side) ==
    LET d == BezierDelta(curve, seg)
    IN  [nx |-> side * d.dy, ny |-> -side * d.dx,
         num |-> curve[Len(curve)], den2 |-> 4 * (d.dx * d.dx + d.dy * d.dy)]

\* every round writing one pair further than it should
BezierWritesOnePairOn(curve) ==
    [w \in 1..(2 * BEZIER_LINE_DIVISIONS + 2) |->
        LET i == (w - 1) \div 2
        IN  IF w = 1 THEN <<0, BezierRim(curve, 0, 1, 1)>>
            ELSE IF w = 2 THEN <<1, BezierRim(curve, 0, 1, -1)>>
            ELSE IF w % 2 = 1 THEN <<2 * i + 3, BezierRim(curve, i, i, -1)>>
            ELSE <<2 * i + 2, BezierRim(curve, i, i, 1)>>]

\* The assignments to points[] made by the loop
\* for (i = 1; i <= BEZIER_LINE_DIVISIONS; i++), in order, each as
\* <<index, rim point>>: points[0] and points[1] when i == 1, then
\* points[2*i+1] and points[2*i] in every round
BezierWrites(curve) ==
    [w \in 1..(2 * BEZIER_LINE_DIVISIONS + 2) |->
        LET i == (w - 1) \div 2
        IN  IF w = 1 THEN <<0, BezierRim(curve, 0, 1, 1)>>
            ELSE IF w = 2 THEN <<1, BezierRim(curve, 0, 1, -1)>>
            ELSE IF w % 2 = 1 THEN <<2 * i + 1, BezierRim(curve, i, i, -1)>>
            ELSE <<2 * i, BezierRim(curve, i, i, 1)>>]

\* the locals of a curve function when it calls RL_DrawTriangleStrip: the
\* indices of points[] it has written, in order, and the count it passes
BezierLocals(curve) ==
    [written    |-> [w \in DOMAIN BezierWrites(curve) |-> BezierWrites(curve)[w][1]],
     pointCount |-> 2 * BEZIER_LINE_DIVISIONS + 2]

\* points[0] and points[1] set from `current` of the first round
BezierPointsFromCurrent(curve) ==
    [n \in 1..(2 * BEZIER_LINE_DIVISIONS + 2) |->
        LET idx == n - 1
            i   == idx \div 2
        IN  IF idx = 0 THEN BezierRim(curve, 1, 1, 1)
            ELSE IF idx = 1 THEN BezierRim(curve, 1, 1, -1)
            ELSE IF idx % 2 = 0 THEN BezierRim(curve, i, i, 1)
            ELSE BezierRim(curve, i, i, -1)]

\* RlVector2 points[2*BEZIER_LINE_DIVISIONS + 2] = { 0 } after the loop: each
\* element holds what was last written to it, (0, 0) if nothing was
BezierPoints(curve) ==
    LET writes == BezierWrites(curve)
    IN  [n \in 1..(2 * BEZIER_LINE_DIVISIONS + 2) |->
            LET ws == {w \in DOMAIN writes : writes[w][1] = n - 1}
            IN  IF ws = {} THEN <<"xy", 0, 0>>
                ELSE writes[CHOOSE w \in ws : \A u \in ws : u <= w][2]]

\* void RL_DrawLineBezier(RlVector2 startPos, RlVector2 endPos, float thick, RlColor color)
RL_DrawLineBezier(startPos, endPos, thick, color) ==
    RL_DrawTriangleStrip(
        BezierPoints(<<"ease", startPos.x, startPos.y, endPos.x, endPos.y, thick>>),
        2 * BEZIER_LINE_DIVISIONS + 2, color)

\* void RL_DrawLineBezierQuad(startPos, endPos, controlPos, thick, color)
RL_DrawLineBezierQuad(startPos, endPos, controlPos, thick, color) ==
    RL_DrawTriangleStrip(
        BezierPoints(<<"quad", startPos.x, startPos.y, endPos.x, endPos.y,
                       controlPos.x, controlPos.y, thick>>),
        2 * BEZIER_LINE_DIVISIONS + 2, color)

\* void RL_DrawLineBezierCubic(startPos, endPos, startControlPos, endControlPos, thick, color)
RL_DrawLineBezierCubic(startPos, endPos, startControlPos, endControlPos, thick, color) ==
    RL_DrawTriangleStrip(
        BezierPoints(<<"cubic", startPos.x, startPos.y, endPos.x, endPos.y,
                       startControlPos.x, startControlPos.y,
                       endControlPos.x, endControlPos.y, thick>>),
        2 * BEZIER_LINE_DIVISIONS + 2, color)

---------------------------------------------------------------------------
(* Rectangles *)

\* A corner of a rotated rectangle:
\* (x + dx*cosRotation - dy*sinRotation, y + dx*sinRotation + dy*cosRotation)
rlVertexRotated(x, y, dx, dy, rotation) ==
    <<"rlVertex2f", <<"rotated", x, y, dx, dy, rotation>>>>

\* the four corners of RL_DrawRectanglePro as rlVertex2f calls
ProCorners(rec, origin, rotation) ==
    IF rotation = 0
    THEN LET x == rec.x - origin.x
             y == rec.y - origin.y
         IN  [topLeft     |-> rlVertex2f(x, y),
              topRight    |-> rlVertex2f(x + rec.width, y),
              bottomLeft  |-> rlVertex2f(x, y + rec.height),
              bottomRight |-> rlVertex2f(x + rec.width, y + rec.height)]
    ELSE LET dx == -origin.x
             dy == -origin.y
         IN  [topLeft     |-> rlVertexRotated(rec.x, rec.y, dx, dy, rotation),
              topRight    |-> rlVertexRotated(rec.x, rec.y, dx + rec.width, dy, rotation),
              bottomLeft  |-> rlVertexRotated(rec.x, rec.y, dx, dy + rec.height, rotation),
              bottomRight |-> rlVertexRotated(rec.x, rec.y, dx + rec.width,
                                              dy + rec.height, rotation)]

\* void RL_DrawRectanglePro(RlRectangle rec, RlVector2 origin, float rotation, RlColor color)
RL_DrawRectanglePro(rec, origin, rotation, color) ==
    LET c == ProCorners(rec, origin, rotation)
    IN  IF SUPPORT_QUADS_DRAW_MODE
        THEN QuadsBatch(
                <<rlNormal3f, rlColor4ub(color),
                  TexTL, c.topLeft, TexBL, c.bottomLeft,
                  TexBR, c.bottomRight, TexTR, c.topRight>>)
        ELSE TrianglesBatch(
                <<rlColor4ub(color),
                  c.topLeft, c.bottomLeft, c.topRight,
                  c.topRight, c.bottomLeft, c.bottomRight>>)

\* void RL_DrawRectangleRec(RlRectangle rec, RlColor color)
RL_DrawRectangleRec(rec, color) ==
    RL_DrawRectanglePro(rec, [x |-> 0, y |-> 0], 0, color)

\* void RL_DrawRectangleV(RlVector2 position, RlVector2 size, RlColor color)
RL_DrawRectangleV(position, size, color) ==
    RL_DrawRectanglePro([x |-> position.x, y |-> position.y,
                         width |-> size.x, height |-> size.y],
                        [x |-> 0, y |-> 0], 0, color)

\* void RL_DrawRectangle(int posX, int posY, int width, int height, RlColor color)
RL_DrawRectangle(posX, posY, width, height, color) ==
    RL_DrawRectangleV([x |-> posX * One, y |-> posY * One],
                      [x |-> width * One, y |-> height * One], color)

\* void RL_DrawRectangleGradientEx(RlRectangle rec, col1, col2, col3, col4)
RL_DrawRectangleGradientEx(rec, col1, col2, col3, col4) ==
    QuadsBatch(
        <<rlNormal3f,
          rlColor4ub(col1), TexTL, rlVertex2f(rec.x, rec.y),
          rlColor4ub(col2), TexBL, rlVertex2f(rec.x, rec.y + rec.height),
          rlColor4ub(col3), TexBR, rlVertex2f(rec.x + rec.width, rec.y + rec.height),
          rlColor4ub(col4), TexTR, rlVertex2f(rec.x + rec.width, rec.y)>>)

\* void RL_DrawRectangleGradientV(int posX, int posY, int width, int height, color1, color2)
RL_DrawRectangleGradientV(posX, posY, width, height, color1, color2) ==
    RL_DrawRectangleGradientEx(
        [x |-> posX * One, y |-> posY * One, width |-> width * One, height |-> height * One],
        color1, color2, color2, color1)

\* void RL_DrawRectangleGradientH(int posX, int posY, int width, int height, color1, color2)
RL_DrawRectangleGradientH(posX, posY, width, height, color1, color2) ==
    RL_DrawRectangleGradientEx(
        [x |-> posX * One, y |-> posY * One, width |-> width * One, height |-> height * One],
        color1, color1, color2, color2)

\* void RL_DrawRectangleLines(int posX, int posY, int width, int height, RlColor color)
RL_DrawRectangleLines(posX, posY, width, height, color) ==
    IF SUPPORT_QUADS_DRAW_MODE
    THEN RL_DrawRectangle(posX, posY, width, 1, color)
         \o RL_DrawRectangle(posX + width - 1, posY + 1, 1, height - 2, color)
         \o RL_DrawRectangle(posX, posY + height - 1, width, 1, color)
         \o RL_DrawRectangle(posX, posY + 1, 1, height - 2, color)
    ELSE LinesBatch(
            <<rlColor4ub(color),
              rlVertex2f((posX + 1) * One, (posY + 1) * One),
              rlVertex2f((posX + width) * One, (posY + 1) * One),
              rlVertex2f((posX + width) * One, (posY + 1) * One),
              rlVertex2f((posX + width) * One, (posY + height) * One),
              rlVertex2f((posX + width) * One, (posY + height) * One),
              rlVertex2f((posX + 1) * One, (posY + height) * One),
              rlVertex2f((posX + 1) * One, (posY + height) * One),
              rlVertex2f((posX + 1) * One, (posY + 1) * One)>>)

\* the thickness RL_DrawRectangleLinesEx draws with:
\* if ((lineThick > rec.width) || (lineThick > rec.height))
\* { if (rec.width > rec.height) lineThick = rec.height/2;
\*   else if (rec.width < rec.height) lineThick = rec.width/2; }
LinesExThick(rec, lineThick) ==
    IF (lineThick > rec.width) \/ (lineThick > rec.height)
    THEN (IF rec.width > rec.height THEN rec.height \div 2
          ELSE IF rec.width < rec.height THEN rec.width \div 2
          ELSE lineThick)
    ELSE lineThick

\* void RL_DrawRectangleLinesEx(RlRectangle rec, float lineThick, RlColor color)
RL_DrawRectangleLinesEx(rec, lineThick0, color) ==
    LET lineThick == LinesExThick(rec, lineThick0)
        top    == [x |-> rec.x, y |-> rec.y, width |-> rec.width, height |-> lineThick]
        bottom == [x |-> rec.x, y |-> rec.y - lineThick + rec.height,
                   width |-> rec.width, height |-> lineThick]
        left   == [x |-> rec.x, y |-> rec.y + lineThick,
                   width |-> lineThick, height |-> rec.height - lineThick * 2]
        right  == [x |-> rec.x - lineThick + rec.width, y |-> rec.y + lineThick,
                   width |-> lineThick, height |-> rec.height - lineThick * 2]
    IN  RL_DrawRectangleRec(top, color) \o RL_DrawRectangleRec(bottom, color)
        \o RL_DrawRectangleRec(left, color) \o RL_DrawRectangleRec(right, color)

---------------------------------------------------------------------------
(* Rounded rectangles *)

\* rlVertex2f(point[i].x, point[i].y), point being the C array (from 0)
rlVertexAt(point, i) == rlVertex2f(point[i + 1].x, point[i + 1].y)

\* one rectangle of four points on the QUADS path
QuadOf(color, point, a, b, c, d) ==
    <<rlColor4ub(color), TexTL, rlVertexAt(point, a), TexBL, rlVertexAt(point, b),
      TexBR, rlVertexAt(point, c), TexTR, rlVertexAt(point, d)>>

\* one rectangle as two triangles on the TRIANGLES path
TrianglesOf(color, point, a, b, c, d, e, f) ==
    <<rlColor4ub(color), rlVertexAt(point, a), rlVertexAt(point, b), rlVertexAt(point, c),
      rlVertexAt(point, d), rlVertexAt(point, e), rlVertexAt(point, f)>>

\* the radius taken from the roundness as given
CornerRadiusNoClamp(rec, roundness0) ==
    IF rec.width > rec.height
    THEN (rec.height * roundness0) \div (2 * One)
    ELSE (rec.width * roundness0) \div (2 * One)

\* if (roundness >= 1.0f) roundness = 1.0f;
\* float radius = (rec.width > rec.height)? (rec.height*roundness)/2 : (rec.width*roundness)/2;
CornerRadius(rec, roundness0) ==
    LET roundness == IF roundness0 >= One THEN One ELSE roundness0
    IN  IF rec.width > rec.height
        THEN (rec.height * roundness) \div (2 * One)
        ELSE (rec.width * roundness) \div (2 * One)

\* if (segments < 4) { th = acosf(...); segments = (int)(ceilf(2*PI/th)/divisor);
\*                     if (segments <= 0) segments = 4; }
CornerSegments(radius, segments, divisor) ==
    LET t        == CeilTurns(radius)
        computed == CASE t.kind = "nan" -> CastNaN
                      [] t.kind = "inf" -> CastInf
                      [] OTHER          -> t.n \div divisor
    IN  IF segments < 4
        THEN (IF computed <= 0 THEN 4 ELSE computed)
        ELSE segments

\* const float angles[4] = { 180.0f, 270.0f, 0.0f, 90.0f };
CornerAngles == <<180, 270, 0, 90>>

NotRoundedByRoundness(rec, roundness) == roundness <= 0

\* Not a rounded rectangle:
\* if ((roundness <= 0.0f) || (rec.width < 1) || (rec.height < 1))
NotRounded(rec, roundness) ==
    (roundness <= 0) \/ (rec.width < One) \/ (rec.height < One)

\* void RL_DrawRectangleRounded(RlRectangle rec, float roundness, int segments, RlColor color)
RL_DrawRectangleRounded(rec, roundness, segments0, color) ==
    LET radius   == CornerRadius(rec, roundness)
        segments == CornerSegments(radius, segments0, 4)
        x0 == rec.x
        y0 == rec.y
        x1 == rec.x + rec.width
        y1 == rec.y + rec.height
        point == <<[x |-> x0 + radius, y |-> y0], [x |-> x1 - radius, y |-> y0],
                   [x |-> x1, y |-> y0 + radius], [x |-> x1, y |-> y1 - radius],
                   [x |-> x1 - radius, y |-> y1], [x |-> x0 + radius, y |-> y1],
                   [x |-> x0, y |-> y1 - radius], [x |-> x0, y |-> y0 + radius],
                   [x |-> x0 + radius, y |-> y0 + radius],
                   [x |-> x1 - radius, y |-> y0 + radius],
                   [x |-> x1 - radius, y |-> y1 - radius],
                   [x |-> x0 + radius, y |-> y1 - radius]>>
        centers == <<point[9], point[10], point[11], point[12]>>
        A(k, i) == Angle(CornerAngles[k + 1], i, 90, segments)
        pairs   == segments \div 2
        quadCorner(k) ==
            LET center == centers[k + 1]
            IN  Loop(pairs, [i \in Iter(pairs) |->
                    <<rlColor4ub(color),
                      TexTL, rlVertex2f(center.x, center.y),
                      TexTR, rlVertexArc(center, radius, A(k, 2 * i + 2)),
                      TexBR, rlVertexArc(center, radius, A(k, 2 * i + 1)),
                      TexBL, rlVertexArc(center, radius, A(k, 2 * i))>>])
                \o (IF segments % 2 = 1
                    THEN <<rlColor4ub(color),
                           TexTL, rlVertex2f(center.x, center.y),
                           TexBR, rlVertexArc(center, radius, A(k, 2 * pairs + 1)),
                           TexBL, rlVertexArc(center, radius, A(k, 2 * pairs)),
                           TexTR, rlVertex2f(center.x, center.y)>>
                    ELSE <<>>)
        triCorner(k) ==
            LET center == centers[k + 1]
            IN  Loop(segments, [i \in Iter(segments) |->
                    <<rlColor4ub(color),
                      rlVertex2f(center.x, center.y),
                      rlVertexArc(center, radius, A(k, i + 1)),
                      rlVertexArc(center, radius, A(k, i))>>])
    IN  IF NotRounded(rec, roundness)
        THEN RL_DrawRectangleRec(rec, color)
        ELSE IF radius <= 0 THEN <<>>
        ELSE IF SUPPORT_QUADS_DRAW_MODE
        THEN QuadsBatch(
                quadCorner(0) \o quadCorner(1) \o quadCorner(2) \o quadCorner(3)
                \o QuadOf(color, point, 0, 8, 9, 1)
                \o QuadOf(color, point, 2, 9, 10, 3)
                \o QuadOf(color, point, 11, 5, 4, 10)
                \o QuadOf(color, point, 7, 6, 11, 8)
                \o QuadOf(color, point, 8, 11, 10, 9))
        ELSE TrianglesBatch(
                triCorner(0) \o triCorner(1) \o triCorner(2) \o triCorner(3)
                \o TrianglesOf(color, point, 0, 8, 9, 1, 0, 9)
                \o TrianglesOf(color, point, 9, 10, 3, 2, 9, 3)
                \o TrianglesOf(color, point, 11, 5, 4, 10, 11, 4)
                \o TrianglesOf(color, point, 7, 6, 11, 8, 7, 11)
                \o TrianglesOf(color, point, 8, 11, 10, 9, 8, 10))

\* void RL_DrawRectangleRoundedLines(rec, roundness, segments, lineThick, color)
RL_DrawRectangleRoundedLines(rec, roundness, segments0, lineThick0, color) ==
    LET lineThick   == IF lineThick0 < 0 THEN 0 ELSE lineThick0
        radius      == CornerRadius(rec, roundness)
        segments    == CornerSegments(radius, segments0, 2)
        outerRadius == radius + lineThick
        innerRadius == radius
        x0 == rec.x
        y0 == rec.y
        x1 == rec.x + rec.width
        y1 == rec.y + rec.height
        point == <<[x |-> x0 + innerRadius, y |-> y0 - lineThick],
                   [x |-> x1 - innerRadius, y |-> y0 - lineThick],
                   [x |-> x1 + lineThick, y |-> y0 + innerRadius],
                   [x |-> x1 + lineThick, y |-> y1 - innerRadius],
                   [x |-> x1 - innerRadius, y |-> y1 + lineThick],
                   [x |-> x0 + innerRadius, y |-> y1 + lineThick],
                   [x |-> x0 - lineThick, y |-> y1 - innerRadius],
                   [x |-> x0 - lineThick, y |-> y0 + innerRadius],
                   [x |-> x0 + innerRadius, y |-> y0],
                   [x |-> x1 - innerRadius, y |-> y0],
                   [x |-> x1, y |-> y0 + innerRadius],
                   [x |-> x1, y |-> y1 - innerRadius],
                   [x |-> x1 - innerRadius, y |-> y1],
                   [x |-> x0 + innerRadius, y |-> y1],
                   [x |-> x0, y |-> y1 - innerRadius],
                   [x |-> x0, y |-> y0 + innerRadius]>>
        centers == <<[x |-> x0 + innerRadius, y |-> y0 + innerRadius],
                     [x |-> x1 - innerRadius, y |-> y0 + innerRadius],
                     [x |-> x1 - innerRadius, y |-> y1 - innerRadius],
                     [x |-> x0 + innerRadius, y |-> y1 - innerRadius]>>
        A(k, i) == Angle(CornerAngles[k + 1], i, 90, segments)
        quadCorner(k) ==
            LET center == centers[k + 1]
            IN  Loop(segments, [i \in Iter(segments) |->
                    <<rlColor4ub(color),
                      TexTL, rlVertexArc(center, innerRadius, A(k, i)),
                      TexTR, rlVertexArc(center, innerRadius, A(k, i + 1)),
                      TexBR, rlVertexArc(center, outerRadius, A(k, i + 1)),
                      TexBL, rlVertexArc(center, outerRadius, A(k, i))>>])
        triCorner(k) ==
            LET center == centers[k + 1]
            IN  Loop(segments, [i \in Iter(segments) |->
                    <<rlColor4ub(color),
                      rlVertexArc(center, innerRadius, A(k, i)),
                      rlVertexArc(center, innerRadius, A(k, i + 1)),
                      rlVertexArc(center, outerRadius, A(k, i)),
                      rlVertexArc(center, innerRadius, A(k, i + 1)),
                      rlVertexArc(center, outerRadius, A(k, i + 1)),
                      rlVertexArc(center, outerRadius, A(k, i))>>])
        lineCorner(k) ==
            LET center == centers[k + 1]
            IN  Loop(segments, [i \in Iter(segments) |->
                    <<rlColor4ub(color),
                      rlVertexArc(center, outerRadius, A(k, i)),
                      rlVertexArc(center, outerRadius, A(k, i + 1))>>])
        edge(i) == <<rlColor4ub(color), rlVertexAt(point, i), rlVertexAt(point, i + 1)>>
    IN  IF roundness <= 0
        THEN RL_DrawRectangleLinesEx(
                [x |-> rec.x - lineThick, y |-> rec.y - lineThick,
                 width |-> rec.width + 2 * lineThick, height |-> rec.height + 2 * lineThick],
                lineThick, color)
        ELSE IF radius <= 0 THEN <<>>
        ELSE IF lineThick > One
        THEN (IF SUPPORT_QUADS_DRAW_MODE
              THEN QuadsBatch(
                      quadCorner(0) \o quadCorner(1) \o quadCorner(2) \o quadCorner(3)
                      \o QuadOf(color, point, 0, 8, 9, 1)
                      \o QuadOf(color, point, 2, 10, 11, 3)
                      \o QuadOf(color, point, 13, 5, 4, 12)
                      \o QuadOf(color, point, 15, 7, 6, 14))
              ELSE TrianglesBatch(
                      triCorner(0) \o triCorner(1) \o triCorner(2) \o triCorner(3)
                      \o TrianglesOf(color, point, 0, 8, 9, 1, 0, 9)
                      \o TrianglesOf(color, point, 10, 11, 3, 2, 10, 3)
                      \o TrianglesOf(color, point, 13, 5, 4, 12, 13, 4)
                      \o TrianglesOf(color, point, 7, 6, 14, 15, 7, 14)))
        ELSE LinesBatch(
                lineCorner(0) \o lineCorner(1) \o lineCorner(2) \o lineCorner(3)
                \o edge(0) \o edge(2) \o edge(4) \o edge(6))

---------------------------------------------------------------------------
(* Triangles and regular polygons *)

\* the QUADS path taken in every build
RL_DrawTriangleQuadsOnly(v1, v2, v3, color) ==
    QuadsBatch(
        <<rlColor4ub(color),
          TexTL, rlVertex2f(v1.x, v1.y), TexBL, rlVertex2f(v2.x, v2.y),
          TexBR, rlVertex2f(v2.x, v2.y), TexTR, rlVertex2f(v3.x, v3.y)>>)

\* void RL_DrawTriangle(RlVector2 v1, RlVector2 v2, RlVector2 v3, RlColor color)
RL_DrawTriangle(v1, v2, v3, color) ==
    IF SUPPORT_QUADS_DRAW_MODE
    THEN QuadsBatch(
            <<rlColor4ub(color),
              TexTL, rlVertex2f(v1.x, v1.y), TexBL, rlVertex2f(v2.x, v2.y),
              TexBR, rlVertex2f(v2.x, v2.y), TexTR, rlVertex2f(v3.x, v3.y)>>)
    ELSE TrianglesBatch(
            <<rlColor4ub(color), rlVertex2f(v1.x, v1.y), rlVertex2f(v2.x, v2.y),
              rlVertex2f(v3.x, v3.y)>>)

\* void RL_DrawTriangleLines(RlVector2 v1, RlVector2 v2, RlVector2 v3, RlColor color)
RL_DrawTriangleLines(v1, v2, v3, color) ==
    LinesBatch(
        <<rlColor4ub(color),
          rlVertex2f(v1.x, v1.y), rlVertex2f(v2.x, v2.y),
          rlVertex2f(v2.x, v2.y), rlVertex2f(v3.x, v3.y),
          rlVertex2f(v3.x, v3.y), rlVertex2f(v1.x, v1.y)>>)

PolySidesNoClamp(sides) == sides

\* if (sides < 3) sides = 3;
PolySides(sides) == IF sides < 3 THEN 3 ELSE sides

\* void RL_DrawPoly(RlVector2 center, int sides, float radius, float rotation, RlColor color)
\* centralAngle after i rounds is rotation + i*(360/sides) degrees
RL_DrawPoly(center, sides0, radius, rotation, color) ==
    LET sides == PolySides(sides0)
        A(i)  == Angle(rotation, i, 360, sides)
    IN  IF SUPPORT_QUADS_DRAW_MODE
        THEN QuadsBatch(
                Loop(sides, [i \in Iter(sides) |->
                    <<rlColor4ub(color),
                      TexTL, rlVertex2f(center.x, center.y),
                      TexBL, rlVertexArc(center, radius, A(i)),
                      TexTR, rlVertexArc(center, radius, A(i + 1)),
                      TexBR, rlVertexArc(center, radius, A(i))>>]))
        ELSE TrianglesBatch(
                Loop(sides, [i \in Iter(sides) |->
                    <<rlColor4ub(color),
                      rlVertex2f(center.x, center.y),
                      rlVertexArc(center, radius, A(i + 1)),
                      rlVertexArc(center, radius, A(i))>>]))

\* void RL_DrawPolyLines(RlVector2 center, int sides, float radius, float rotation, RlColor color)
RL_DrawPolyLines(center, sides0, radius, rotation, color) ==
    LET sides == PolySides(sides0)
        A(i)  == Angle(rotation, i, 360, sides)
    IN  LinesBatch(
            Loop(sides, [i \in Iter(sides) |->
                <<rlColor4ub(color),
                  rlVertexArc(center, radius, A(i)),
                  rlVertexArc(center, radius, A(i + 1))>>]))

\* a vertex at innerRadius = radius - (lineThick*cosf(DEG2RAD*exteriorAngle/2.0f)),
\* exteriorAngle = 360.0f/(float)sides*DEG2RAD; the cosine stays symbolic
rlVertexInner(center, radius, lineThick, sides, angle) ==
    <<"rlVertex2f", <<"arcInner", center.x, center.y, radius, lineThick, sides, angle>>>>

\* void RL_DrawPolyLinesEx(center, sides, radius, rotation, lineThick, color)
RL_DrawPolyLinesEx(center, sides0, radius, rotation, lineThick, color) ==
    LET sides    == PolySides(sides0)
        A(i)     == Angle(rotation, i, 360, sides)
        Outer(i) == rlVertexArc(center, radius, A(i))
        Inner(i) == rlVertexInner(center, radius, lineThick, sides, A(i))
    IN  IF SUPPORT_QUADS_DRAW_MODE
        THEN QuadsBatch(
                Loop(sides, [i \in Iter(sides) |->
                    <<rlColor4ub(color),
                      TexBL, Outer(i), TexTL, Inner(i),
                      TexBR, Inner(i + 1), TexTR, Outer(i + 1)>>]))
        ELSE TrianglesBatch(
                Loop(sides, [i \in Iter(sides) |->
                    <<rlColor4ub(color),
                      Outer(i + 1), Outer(i), Inner(i),
                      Inner(i), Inner(i + 1), Outer(i + 1)>>]))

---------------------------------------------------------------------------
(* Collision queries *)

\* bool RL_CheckCollisionPointRec(RlVector2 point, RlRectangle rec)
RL_CheckCollisionPointRec(point, rec) ==
    /\ point.x >= rec.x
    /\ point.x < (rec.x + rec.width)
    /\ point.y >= rec.y
    /\ point.y < (rec.y + rec.height)

\* bool RL_CheckCollisionCircles(center1, radius1, center2, radius2):
\* sqrtf(dx*dx + dy*dy) <= (radius1 + radius2), squared on both sides
RL_CheckCollisionCircles(center1, radius1, center2, radius2) ==
    LET dx == center2.x - center1.x
        dy == center2.y - center1.y
    IN  /\ radius1 + radius2 >= 0
        /\ dx * dx + dy * dy <= (radius1 + radius2) * (radius1 + radius2)

\* the point taken for a circle of the same radius
RL_CheckCollisionPointCircleTwice(point, center, radius) ==
    RL_CheckCollisionCircles(point, radius, center, radius)

\* bool RL_CheckCollisionPointCircle(RlVector2 point, RlVector2 center, float radius)
RL_CheckCollisionPointCircle(point, center, radius) ==
    RL_CheckCollisionCircles(point, 0, center, radius)

\* the three coordinates tested with >= 0
RL_CheckCollisionPointTriangleInclusive(point, p1, p2, p3) ==
    LET na == (p2.y - p3.y) * (point.x - p3.x) + (p3.x - p2.x) * (point.y - p3.y)
        nb == (p3.y - p1.y) * (point.x - p3.x) + (p1.x - p3.x) * (point.y - p3.y)
        d  == (p2.y - p3.y) * (p1.x - p3.x) + (p3.x - p2.x) * (p1.y - p3.y)
    IN  CASE d > 0 -> (na >= 0) /\ (nb >= 0) /\ (d - na - nb >= 0)
          [] d < 0 -> (na <= 0) /\ (nb <= 0) /\ (d - na - nb <= 0)
          [] OTHER -> FALSE

\* bool RL_CheckCollisionPointTriangle(point, p1, p2, p3): alpha = na/d,
\* beta = nb/d, gamma = 1 - alpha - beta; with d = 0 the quotients are
\* infinite or NaN and gamma is never > 0
RL_CheckCollisionPointTriangle(point, p1, p2, p3) ==
    LET na == (p2.y - p3.y) * (point.x - p3.x) + (p3.x - p2.x) * (point.y - p3.y)
        nb == (p3.y - p1.y) * (point.x - p3.x) + (p1.x - p3.x) * (point.y - p3.y)
        d  == (p2.y - p3.y) * (p1.x - p3.x) + (p3.x - p2.x) * (p1.y - p3.y)
    IN  CASE d > 0 -> (na > 0) /\ (nb > 0) /\ (d - na - nb > 0)
          [] d < 0 -> (na < 0) /\ (nb < 0) /\ (d - na - nb < 0)
          [] OTHER -> FALSE

\* the test of one edge (vc, vn) in RL_CheckCollisionPointPoly; the quotient
\* by (vn.y - vc.y) is compared after multiplying both sides by it
PolyEdgeCrossed(point, vc, vn) ==
    /\ \/ (vc.y >= point.y) /\ (vn.y < point.y)
       \/ (vc.y < point.y) /\ (vn.y >= point.y)
    /\ LET num == (vn.x - vc.x) * (point.y - vc.y)
           den == vn.y - vc.y
       IN  IF den > 0 THEN (point.x - vc.x) * den < num
           ELSE (point.x - vc.x) * den > num

RECURSIVE PolyParity(_, _, _, _)
PolyParity(point, points, i, pointCount) ==
    IF i >= pointCount - 1 THEN FALSE
    ELSE LET rest == PolyParity(point, points, i + 1, pointCount)
         IN  IF PolyEdgeCrossed(point, points[i + 1], points[i + 1 + 1])
             THEN ~rest ELSE rest

\* the loop run up to pointCount, the last edge closing the polygon
RL_CheckCollisionPointPolyClosed(point, points, pointCount) ==
    IF pointCount > 2
    THEN LET open == PolyParity(point, points, 0, pointCount)
         IN  IF PolyEdgeCrossed(point, points[pointCount], points[1])
             THEN ~open ELSE open
    ELSE FALSE

\* bool RL_CheckCollisionPointPoly(RlVector2 point, RlVector2 *points, int pointCount)
RL_CheckCollisionPointPoly(point, points, pointCount) ==
    IF pointCount > 2 THEN PolyParity(point, points, 0, pointCount) ELSE FALSE

\* the quotient evaluated for every edge, whatever the side test gives
PolyDivisorsEveryEdge(point, points, pointCount) ==
    IF pointCount > 2
    THEN [i \in 1..(pointCount - 1) |-> points[i + 1].y - points[i].y]
    ELSE <<>>

\* The divisors (vn.y - vc.y) RL_CheckCollisionPointPoly divides by, in the
\* order of the loop for (i = 0; i < pointCount - 1; i++): the right operand
\* of && is evaluated only when the left one is true
PolyDivisors(point, points, pointCount) ==
    IF pointCount > 2
    THEN LET edge == [i \in 1..(pointCount - 1) |-> [vc |-> points[i], vn |-> points[i + 1]]]
             Sides(e) == \/ (e.vc.y >= point.y) /\ (e.vn.y < point.y)
                         \/ (e.vc.y < point.y) /\ (e.vn.y >= point.y)
             reached == SelectSeq(edge, Sides)
         IN  [k \in 1..Len(reached) |-> reached[k].vn.y - reached[k].vc.y]
    ELSE <<>>

RL_CheckCollisionRecsOneSided(rec1, rec2) ==
    /\ rec1.x < (rec2.x + rec2.width)
    /\ rec1.y < (rec2.y + rec2.height) /\ (rec1.y + rec1.height) > rec2.y

\* bool RL_CheckCollisionRecs(RlRectangle rec1, RlRectangle rec2)
RL_CheckCollisionRecs(rec1, rec2) ==
    /\ rec1.x < (rec2.x + rec2.width) /\ (rec1.x + rec1.width) > rec2.x
    /\ rec1.y < (rec2.y + rec2.height) /\ (rec1.y + rec1.height) > rec2.y

\* (int) of a float given as num/den, den > 0: truncation toward zero
Trunc(num, den) == IF num >= 0 THEN num \div den ELSE -((-num) \div den)

\* bool RL_CheckCollisionCircleRec(RlVector2 center, float radius, RlRectangle rec);
\* the comparisons with rec.width/2.0f are made on doubled values
RL_CheckCollisionCircleRec(center, radius, rec) ==
    LET recCenterX == Trunc(2 * rec.x + rec.width, 2 * One)
        recCenterY == Trunc(2 * rec.y + rec.height, 2 * One)
        dx2 == 2 * Abs(center.x - recCenterX * One)
        dy2 == 2 * Abs(center.y - recCenterY * One)
    IN  IF dx2 > rec.width + 2 * radius THEN FALSE
        ELSE IF dy2 > rec.height + 2 * radius THEN FALSE
        ELSE IF dx2 <= rec.width THEN TRUE
        ELSE IF dy2 <= rec.height THEN TRUE
        ELSE (dx2 - rec.width) * (dx2 - rec.width)
                + (dy2 - rec.height) * (dy2 - rec.height) <= 4 * radius * radius

\* the test made against the lower end only
QuotientBelow(num, div, lo, hi) ==
    IF div > 0 THEN num < lo * div ELSE num > lo * div

\* xi < lo or xi > hi for xi = num/div, div # 0
QuotientOutside(num, div, lo, hi) ==
    IF div > 0 THEN (num < lo * div) \/ (num > hi * div)
    ELSE (num > lo * div) \/ (num < hi * div)

\* bool RL_CheckCollisionLines(startPos1, endPos1, startPos2, endPos2, RlVector2 *collisionPoint):
\* the value returned and the point stored (xi, yi as quotients by div), or
\* "unchanged".  On whole twentieths fabsf(v) >= FLT_EPSILON is v # 0.
RL_CheckCollisionLines(startPos1, endPos1, startPos2, endPos2, hasPoint) ==
    LET div == (endPos2.y - startPos2.y) * (endPos1.x - startPos1.x)
                 - (endPos2.x - startPos2.x) * (endPos1.y - startPos1.y)
        c1  == startPos1.x * endPos1.y - startPos1.y * endPos1.x
        c2  == startPos2.x * endPos2.y - startPos2.y * endPos2.x
        xn  == (startPos2.x - endPos2.x) * c1 - (startPos1.x - endPos1.x) * c2
        yn  == (startPos2.y - endPos2.y) * c1 - (startPos1.y - endPos1.y) * c2
        out == \/ /\ startPos1.x # endPos1.x
                  /\ QuotientOutside(xn, div, MinOf(startPos1.x, endPos1.x),
                                     MaxOf(startPos1.x, endPos1.x))
               \/ /\ startPos2.x # endPos2.x
                  /\ QuotientOutside(xn, div, MinOf(startPos2.x, endPos2.x),
                                     MaxOf(startPos2.x, endPos2.x))
               \/ /\ startPos1.y # endPos1.y
                  /\ QuotientOutside(yn, div, MinOf(startPos1.y, endPos1.y),
                                     MaxOf(startPos1.y, endPos1.y))
               \/ /\ startPos2.y # endPos2.y
                  /\ QuotientOutside(yn, div, MinOf(startPos2.y, endPos2.y),
                                     MaxOf(startPos2.y, endPos2.y))
        collision == (div # 0) /\ ~out
    IN  [collision |-> collision,
         collisionPoint |-> IF collision /\ hasPoint THEN <<"set", xn, yn, div>>
                            ELSE <<"unchanged", 0, 0, 1>>]

\* the distance test made with <= in place of <
RL_CheckCollisionPointLineInclusive(point, p1, p2, threshold) ==
    LET dxc   == point.x - p1.x
        dyc   == point.y - p1.y
        dxl   == p2.x - p1.x
        dyl   == p2.y - p1.y
        cross == dxc * dyl - dyc * dxl
    IN  IF Abs(cross) <= threshold * One * MaxOf(Abs(dxl), Abs(dyl))
        THEN (IF Abs(dxl) >= Abs(dyl)
              THEN (IF dxl > 0 THEN (p1.x <= point.x) /\ (point.x <= p2.x)
                    ELSE (p2.x <= point.x) /\ (point.x <= p1.x))
              ELSE (IF dyl > 0 THEN (p1.y <= point.y) /\ (point.y <= p2.y)
                    ELSE (p2.y <= point.y) /\ (point.y <= p1.y)))
        ELSE FALSE

\* bool RL_CheckCollisionPointLine(RlVector2 point, RlVector2 p1, RlVector2 p2, int threshold)
RL_CheckCollisionPointLine(point, p1, p2, threshold) ==
    LET dxc   == point.x - p1.x
        dyc   == point.y - p1.y
        dxl   == p2.x - p1.x
        dyl   == p2.y - p1.y
        cross == dxc * dyl - dyc * dxl
    IN  IF Abs(cross) < threshold * One * MaxOf(Abs(dxl), Abs(dyl))
        THEN (IF Abs(dxl) >= Abs(dyl)
              THEN (IF dxl > 0 THEN (p1.x <= point.x) /\ (point.x <= p2.x)
                    ELSE (p2.x <= point.x) /\ (point.x <= p1.x))
              ELSE (IF dyl > 0 THEN (p1.y <= point.y) /\ (point.y <= p2.y)
                    ELSE (p2.y <= point.y) /\ (point.y <= p1.y)))
        ELSE FALSE

\* the overlap computed without the test that it is not empty
RL_GetCollisionRecUntested(rec1, rec2) ==
    LET left   == IF rec1.x > rec2.x THEN rec1.x ELSE rec2.x
        right1 == rec1.x + rec1.width
        right2 == rec2.x + rec2.width
        right  == IF right1 < right2 THEN right1 ELSE right2
        top    == IF rec1.y > rec2.y THEN rec1.y ELSE rec2.y
        bottom1 == rec1.y + rec1.height
        bottom2 == rec2.y + rec2.height
        bottom == IF bottom1 < bottom2 THEN bottom1 ELSE bottom2
    IN  [x |-> left, y |-> top, width |-> right - left, height |-> bottom - top]

\* RlRectangle RL_GetCollisionRec(RlRectangle rec1, RlRectangle rec2)
RL_GetCollisionRec(rec1, rec2) ==
    LET left   == IF rec1.x > rec2.x THEN rec1.x ELSE rec2.x
        right1 == rec1.x + rec1.width
        right2 == rec2.x + rec2.width
        right  == IF right1 < right2 THEN right1 ELSE right2
        top    == IF rec1.y > rec2.y THEN rec1.y ELSE rec2.y
        bottom1 == rec1.y + rec1.height
        bottom2 == rec2.y + rec2.height
        bottom == IF bottom1 < bottom2 THEN bottom1 ELSE bottom2
    IN  IF (left < right) /\ (top < bottom)
        THEN [x |-> left, y |-> top, width |-> right - left, height |-> bottom - top]
        ELSE [x |-> 0, y |-> 0, width |-> 0, height |-> 0]

---------------------------------------------------------------------------
(* The inputs the operations are called with *)

RED == <<230, 41, 55, 255>>
BLANK == <<0, 0, 0, 0>>
Colors == {RED}

Origin == [x |-> 0, y |-> 0]
Vectors == {Origin, [x |-> 2 * One, y |-> One], [x |-> -One, y |-> 3 * One]}
Centers == {[x |-> 2 * One, y |-> One]}
Pixels == {0, 3}

\* 0.25, 0.3, 0.5, 1.0, 10.0 and two radii that are clamped
Radii == {-One, 0, One \div 4, 6, One \div 2, One, 10 * One}
InnerRadii == {-One, 0, 2 * One}
OuterRadii == {-One, 0, 6, One, 10 * One}
ArcAngles == {0, 100, 360}
SegmentRequests == {-1, 0, 3, 5}

Recs == {[x |-> 0, y |-> 0, width |-> 4 * One, height |-> 2 * One],
         [x |-> One, y |-> -One, width |-> 2 * One, height |-> 2 * One],
         [x |-> 0, y |-> 0, width |-> 8, height |-> 2 * One],
         [x |-> 0, y |-> 0, width |-> 2 * One, height |-> 0]}
Roundnesses == {-One, 0, One \div 2, One, 2 * One}
Thicknesses == {-One, 0, One \div 2, 2 * One, 5 * One}
Rotations == {0, 45}
SideCounts == {-1, 0, 1, 2, 3, 4, 5}

PointLists == {<<>>,
               <<Vec(0, 0), Vec(One, 0)>>,
               <<Vec(0, 0), Vec(One, 0), Vec(One, One)>>,
               <<Vec(0, 0), Vec(One, 0), Vec(One, One), Vec(0, One), Vec(0, 0)>>,
               <<Vec(0, 0), Vec(0, One), Vec(One, 0), Vec(One, One), Vec(2 * One, 0),
                 Vec(2 * One, One)>>}
PointCounts(points) == {-1} \cup (0..Len(points))

Textures == {[id |-> 0, width |-> 64, height |-> 64, mipmaps |-> 1, format |-> 7],
             [id |-> 5, width |-> 64, height |-> 32, mipmaps |-> 1, format |-> 7]}
Sources == {[x |-> One, y |-> 2 * One, width |-> 4 * One, height |-> 4 * One],
            [x |-> 0, y |-> 0, width |-> 0, height |-> 4 * One],
            [x |-> 0, y |-> 0, width |-> 4 * One, height |-> 0]}

---------------------------------------------------------------------------
(* The state machine *)

NoOp == [name |-> "none"]
NoLocals == <<>>

Init ==
    /\ SUPPORT_QUADS_DRAW_MODE \in BOOLEAN
    /\ target \in Targets
    /\ texShapes = DefaultTexture
    /\ texShapesRec = DefaultRec
    /\ rlBatch = "none"
    /\ rlTexture = 0
    /\ rlScoped = TRUE
    /\ calls = <<>>
    /\ pc = "ready"
    /\ op = NoOp
    /\ locals = NoLocals
    /\ result = "none"

\* A drawing function is called and returns: its backend calls cs reach the backend
Draw(o, cs, loc) ==
    /\ pc = "ready"
    /\ pc' = "returned"
    /\ op' = o
    /\ calls' = cs
    /\ locals' = loc
    /\ result' = "void"
    /\ LET st == RlRun([batch |-> rlBatch, texture |-> rlTexture, scoped |-> rlScoped],
                        calls')
       IN  /\ rlBatch' = st.batch
           /\ rlTexture' = st.texture
           /\ rlScoped' = st.scoped
    /\ UNCHANGED <<SUPPORT_QUADS_DRAW_MODE, target, texShapes, texShapesRec>>

\* A collision query is called and returns res
Query(o, res) ==
    /\ pc = "ready"
    /\ pc' = "returned"
    /\ op' = o
    /\ calls' = <<>>
    /\ locals' = NoLocals
    /\ result' = res
    /\ UNCHANGED <<SUPPORT_QUADS_DRAW_MODE, target, texShapes, texShapesRec,
                   rlBatch, rlTexture, rlScoped>>

\* The caller goes on to its next call
Return ==
    /\ pc = "returned"
    /\ pc' = "ready"
    /\ op' = NoOp
    /\ calls' = <<>>
    /\ locals' = NoLocals
    /\ result' = "none"
    /\ UNCHANGED <<SUPPORT_QUADS_DRAW_MODE, target, texShapes, texShapesRec,
                   rlBatch, rlTexture, rlScoped>>

CallSetShapesTexture ==
    /\ pc = "ready"
    /\ \E texture \in Textures, source \in Sources :
           /\ pc = "ready"
           /\ pc' = "returned"
           /\ op' = [name |-> "SetShapesTexture", texture |-> texture, source |-> source]
           /\ texShapes' = SetShapesTexture(texture, source).texShapes
           /\ texShapesRec' = SetShapesTexture(texture, source).texShapesRec
           /\ calls' = <<>>
           /\ locals' = NoLocals
           /\ result' = "void"
           /\ UNCHANGED <<SUPPORT_QUADS_DRAW_MODE, target, rlBatch, rlTexture, rlScoped>>

DrawPixel ==
    /\ pc = "ready"
    /\ \E posX \in Pixels, posY \in Pixels, color \in Colors :
           Draw([name |-> "RL_DrawPixel", posX |-> posX, posY |-> posY, color |-> color],
                RL_DrawPixel(posX, posY, color), NoLocals)

DrawPixelV ==
    /\ pc = "ready"
    /\ \E position \in Vectors, color \in Colors :
           Draw([name |-> "RL_DrawPixelV", position |-> position, color |-> color],
                RL_DrawPixelV(position, color), NoLocals)

DrawLine ==
    /\ pc = "ready"
    /\ \E startPosX \in Pixels, endPosX \in Pixels, endPosY \in Pixels, color \in Colors :
           Draw([name |-> "RL_DrawLine", startPosX |-> startPosX, startPosY |-> 0,
                 endPosX |-> endPosX, endPosY |-> endPosY, color |-> color],
                RL_DrawLine(startPosX, 0, endPosX, endPosY, color), NoLocals)

DrawLineV ==
    /\ pc = "ready"
    /\ \E startPos \in Vectors, endPos \in Vectors, color \in Colors :
           Draw([name |-> "RL_DrawLineV", startPos |-> startPos, endPos |-> endPos,
                 color |-> color],
                RL_DrawLineV(startPos, endPos, color), NoLocals)

DrawLineEx ==
    /\ pc = "ready"
    /\ \E startPos \in Vectors, endPos \in Vectors, thick \in Thicknesses, color \in Colors :
           Draw([name |-> "RL_DrawLineEx", startPos |-> startPos, endPos |-> endPos,
                 thick |-> thick, color |-> color],
                RL_DrawLineEx(startPos, endPos, thick, color), NoLocals)

DrawLineBezier ==
    /\ pc = "ready"
    /\ \E startPos \in Vectors, endPos \in Vectors, thick \in {0, 2 * One}, color \in Colors :
           Draw([name |-> "RL_DrawLineBezier", startPos |-> startPos, endPos |-> endPos,
                 thick |-> thick, color |-> color],
                RL_DrawLineBezier(startPos, endPos, thick, color),
                <<BezierLocals(<<"ease", startPos.x, startPos.y, endPos.x, endPos.y,
                                 thick>>)>>)

DrawLineBezierQuad ==
    /\ pc = "ready"
    /\ \E startPos \in Vectors, endPos \in Centers \cup {[x |-> 10 * One, y |-> 0]},
          controlPos \in Vectors \cup {[x |-> 5 * One, y |-> 10 * One]},
          thick \in {0, 2 * One}, color \in Colors :
           Draw([name |-> "RL_DrawLineBezierQuad", startPos |-> startPos, endPos |-> endPos,
                 controlPos |-> controlPos, thick |-> thick, color |-> color],
                RL_DrawLineBezierQuad(startPos, endPos, controlPos, thick, color),
                <<BezierLocals(<<"quad", startPos.x, startPos.y, endPos.x, endPos.y,
                                 controlPos.x, controlPos.y, thick>>)>>)

DrawLineBezierCubic ==
    /\ pc = "ready"
    /\ \E startPos \in Vectors, endPos \in Centers, startControlPos \in Vectors,
          endControlPos \in {Origin}, thick \in {0, 2 * One}, color \in Colors :
           Draw([name |-> "RL_DrawLineBezierCubic", startPos |-> startPos, endPos |-> endPos,
                 startControlPos |-> startControlPos, endControlPos |-> endControlPos,
                 thick |-> thick, color |-> color],
                RL_DrawLineBezierCubic(startPos, endPos, startControlPos, endControlPos,
                                       thick, color),
                <<BezierLocals(<<"cubic", startPos.x, startPos.y, endPos.x, endPos.y,
                                 startControlPos.x, startControlPos.y,
                                 endControlPos.x, endControlPos.y, thick>>)>>)

DrawLineStrip ==
    /\ pc = "ready"
    /\ \E points \in PointLists, color \in Colors :
           \E pointCount \in PointCounts(points) :
               Draw([name |-> "RL_DrawLineStrip", points |-> points,
                     pointCount |-> pointCount, color |-> color],
                    RL_DrawLineStrip(points, pointCount, color), NoLocals)

DrawCircle ==
    /\ pc = "ready"
    /\ \E centerX \in Pixels, centerY \in {0}, radius \in Radii, color \in Colors :
           Draw([name |-> "RL_DrawCircle", centerX |-> centerX, centerY |-> centerY,
                 radius |-> radius, color |-> color],
                RL_DrawCircle(centerX, centerY, radius, color),
                <<SectorLocals(radius, 0, 360, 36)>>)

DrawCircleSector ==
    /\ pc = "ready"
    /\ \E center \in Centers, radius \in Radii, startAngle \in ArcAngles,
          endAngle \in ArcAngles, segments \in SegmentRequests, color \in Colors :
           Draw([name |-> "RL_DrawCircleSector", center |-> center, radius |-> radius,
                 startAngle |-> startAngle, endAngle |-> endAngle, segments |-> segments,
                 color |-> color],
                RL_DrawCircleSector(center, radius, startAngle, endAngle, segments, color),
                <<SectorLocals(radius, startAngle, endAngle, segments)>>)

DrawCircleSectorLines ==
    /\ pc = "ready"
    /\ \E center \in Centers, radius \in Radii, startAngle \in ArcAngles,
          endAngle \in ArcAngles, segments \in SegmentRequests, color \in Colors :
           Draw([name |-> "RL_DrawCircleSectorLines", center |-> center, radius |-> radius,
                 startAngle |-> startAngle, endAngle |-> endAngle, segments |-> segments,
                 color |-> color],
                RL_DrawCircleSectorLines(center, radius, startAngle, endAngle, segments, color),
                <<SectorLocals(radius, startAngle, endAngle, segments)>>)

DrawCircleGradient ==
    /\ pc = "ready"
    /\ \E centerX \in Pixels, radius \in {-One, 0, One}, color1 \in Colors :
           Draw([name |-> "RL_DrawCircleGradient", centerX |-> centerX, centerY |-> 0,
                 radius |-> radius, color1 |-> color1, color2 |-> BLANK],
                RL_DrawCircleGradient(centerX, 0, radius, color1, BLANK), NoLocals)

DrawCircleV ==
    /\ pc = "ready"
    /\ \E center \in Centers, radius \in Radii, color \in Colors :
           Draw([name |-> "RL_DrawCircleV", center |-> center, radius |-> radius,
                 color |-> color],
                RL_DrawCircleV(center, radius, color),
                <<SectorLocals(radius, 0, 360, 36)>>)

DrawCircleLines ==
    /\ pc = "ready"
    /\ \E centerX \in Pixels, radius \in {-One, 0, One}, color \in Colors :
           Draw([name |-> "RL_DrawCircleLines", centerX |-> centerX, centerY |-> 0,
                 radius |-> radius, color |-> color],
                RL_DrawCircleLines(centerX, 0, radius, color), NoLocals)

DrawEllipse ==
    /\ pc = "ready"
    /\ \E centerX \in Pixels, radiusH \in {0, One}, radiusV \in {-One, 2 * One},
          color \in Colors :
           Draw([name |-> "RL_DrawEllipse", centerX |-> centerX, centerY |-> 0,
                 radiusH |-> radiusH, radiusV |-> radiusV, color |-> color],
                RL_DrawEllipse(centerX, 0, radiusH, radiusV, color), NoLocals)

DrawEllipseLines ==
    /\ pc = "ready"
    /\ \E centerX \in Pixels, radiusH \in {0, One}, radiusV \in {-One, 2 * One},
          color \in Colors :
           Draw([name |-> "RL_DrawEllipseLines", centerX |-> centerX, centerY |-> 0,
                 radiusH |-> radiusH, radiusV |-> radiusV, color |-> color],
                RL_DrawEllipseLines(centerX, 0, radiusH, radiusV, color), NoLocals)

\* the locals of the ring functions and, when they hand over to the sector
\* functions, of those (last)
RingFrames(innerRadius, outerRadius, startAngle, endAngle, segments) ==
    LET l == RingLocals(innerRadius, outerRadius, startAngle, endAngle, segments)
    IN  IF startAngle = endAngle THEN NoLocals
        ELSE IF l.innerRadius <= 0
        THEN <<l, SectorLocals(l.outerRadius, l.startAngle, l.endAngle, l.segments)>>
        ELSE <<l>>

DrawRing ==
    /\ pc = "ready"
    /\ \E center \in Centers, innerRadius \in InnerRadii, outerRadius \in OuterRadii,
          startAngle \in ArcAngles, endAngle \in ArcAngles, segments \in SegmentRequests,
          color \in Colors :
           Draw([name |-> "RL_DrawRing", center |-> center, innerRadius |-> innerRadius,
                 outerRadius |-> outerRadius, startAngle |-> startAngle,
                 endAngle |-> endAngle, segments |-> segments, color |-> color],
                RL_DrawRing(center, innerRadius, outerRadius, startAngle, endAngle,
                            segments, color),
                RingFrames(innerRadius, outerRadius, startAngle, endAngle, segments))

DrawRingLines ==
    /\ pc = "ready"
    /\ \E center \in Centers, innerRadius \in InnerRadii, outerRadius \in OuterRadii,
          startAngle \in ArcAngles, endAngle \in ArcAngles, segments \in SegmentRequests,
          color \in Colors :
           Draw([name |-> "RL_DrawRingLines", center |-> center, innerRadius |-> innerRadius,
                 outerRadius |-> outerRadius, startAngle |-> startAngle,
                 endAngle |-> endAngle, segments |-> segments, color |-> color],
                RL_DrawRingLines(center, innerRadius, outerRadius, startAngle, endAngle,
                                 segments, color),
                RingFrames(innerRadius, outerRadius, startAngle, endAngle, segments))

Sizes == {0, 3}

DrawRectangle ==
    /\ pc = "ready"
    /\ \E posX \in Pixels, posY \in Pixels, width \in Sizes, height \in Sizes,
          color \in Colors :
           Draw([name |-> "RL_DrawRectangle", posX |-> posX, posY |-> posY,
                 width |-> width, height |-> height, color |-> color],
                RL_DrawRectangle(posX, posY, width, height, color), NoLocals)

DrawRectangleV ==
    /\ pc = "ready"
    /\ \E position \in Vectors, size \in Vectors, color \in Colors :
           Draw([name |-> "RL_DrawRectangleV", position |-> position, size |-> size,
                 color |-> color],
                RL_DrawRectangleV(position, size, color), NoLocals)

DrawRectangleRec ==
    /\ pc = "ready"
    /\ \E rec \in Recs, color \in Colors :
           Draw([name |-> "RL_DrawRectangleRec", rec |-> rec, color |-> color],
                RL_DrawRectangleRec(rec, color), NoLocals)

DrawRectanglePro ==
    /\ pc = "ready"
    /\ \E rec \in Recs, origin \in Vectors, rotation \in Rotations, color \in Colors :
           Draw([name |-> "RL_DrawRectanglePro", rec |-> rec, origin |-> origin,
                 rotation |-> rotation, color |-> color],
                RL_DrawRectanglePro(rec, origin, rotation, color), NoLocals)

DrawRectangleGradientV ==
    /\ pc = "ready"
    /\ \E posX \in Pixels, posY \in Pixels, width \in Sizes, height \in Sizes,
          color1 \in Colors :
           Draw([name |-> "RL_DrawRectangleGradientV", posX |-> posX, posY |-> posY,
                 width |-> width, height |-> height, color1 |-> color1, color2 |-> BLANK],
                RL_DrawRectangleGradientV(posX, posY, width, height, color1, BLANK), NoLocals)

DrawRectangleGradientH ==
    /\ pc = "ready"
    /\ \E posX \in Pixels, posY \in Pixels, width \in Sizes, height \in Sizes,
          color1 \in Colors :
           Draw([name |-> "RL_DrawRectangleGradientH", posX |-> posX, posY |-> posY,
                 width |-> width, height |-> height, color1 |-> color1, color2 |-> BLANK],
                RL_DrawRectangleGradientH(posX, posY, width, height, color1, BLANK), NoLocals)

DrawRectangleGradientExRebinding ==
    /\ pc = "ready"
    /\ pc' = "returned"
    /\ \E rec \in Recs, col1 \in Colors, col3 \in {RED, BLANK} :
           /\ op' = [name |-> "RL_DrawRectangleGradientEx", rec |-> rec, col1 |-> col1,
                     col2 |-> BLANK, col3 |-> col3, col4 |-> BLANK]
           /\ calls' = RL_DrawRectangleGradientEx(rec, col1, BLANK, col3, BLANK)
    /\ texShapes' = DefaultTexture
    /\ texShapesRec' = DefaultRec
    /\ locals' = NoLocals
    /\ result' = "void"
    /\ UNCHANGED <<SUPPORT_QUADS_DRAW_MODE, target, rlBatch, rlTexture, rlScoped>>

DrawRectangleGradientEx ==
    /\ pc = "ready"
    /\ \E rec \in Recs, col1 \in Colors, col3 \in {RED, BLANK} :
           Draw([name |-> "RL_DrawRectangleGradientEx", rec |-> rec, col1 |-> col1,
                 col2 |-> BLANK, col3 |-> col3, col4 |-> BLANK],
                RL_DrawRectangleGradientEx(rec, col1, BLANK, col3, BLANK), NoLocals)

DrawRectangleLines ==
    /\ pc = "ready"
    /\ \E posX \in Pixels, posY \in Pixels, width \in Sizes, height \in Sizes,
          color \in Colors :
           Draw([name |-> "RL_DrawRectangleLines", posX |-> posX, posY |-> posY,
                 width |-> width, height |-> height, color |-> color],
                RL_DrawRectangleLines(posX, posY, width, height, color), NoLocals)

DrawRectangleLinesEx ==
    /\ pc = "ready"
    /\ \E rec \in Recs, lineThick \in Thicknesses, color \in Colors :
           Draw([name |-> "RL_DrawRectangleLinesEx", rec |-> rec, lineThick |-> lineThick,
                 color |-> color],
                RL_DrawRectangleLinesEx(rec, lineThick, color),
                <<[lineThick |-> LinesExThick(rec, lineThick)]>>)

\* the locals of the rounded-rectangle functions once the segment count is
\* settled; none when the function has returned or handed over before that
RoundedFrames(early, rec, roundness, segments, divisor) ==
    LET radius == CornerRadius(rec, roundness)
    IN  IF early \/ radius <= 0 THEN NoLocals
        ELSE <<[radius |-> radius,
                segments |-> CornerSegments(radius, segments, divisor),
                divisor |-> IF segments < 4 THEN <<radius>> ELSE <<>>]>>

DrawRectangleRounded ==
    /\ pc = "ready"
    /\ \E rec \in Recs, roundness \in Roundnesses, segments \in SegmentRequests,
          color \in Colors :
           Draw([name |-> "RL_DrawRectangleRounded", rec |-> rec, roundness |-> roundness,
                 segments |-> segments, color |-> color],
                RL_DrawRectangleRounded(rec, roundness, segments, color),
                RoundedFrames(NotRounded(rec, roundness), rec, roundness, segments, 4))

DrawRectangleRoundedLines ==
    /\ pc = "ready"
    /\ \E rec \in Recs, roundness \in Roundnesses, segments \in SegmentRequests,
          lineThick \in {-One, One \div 2, 2 * One}, color \in Colors :
           Draw([name |-> "RL_DrawRectangleRoundedLines", rec |-> rec,
                 roundness |-> roundness, segments |-> segments, lineThick |-> lineThick,
                 color |-> color],
                RL_DrawRectangleRoundedLines(rec, roundness, segments, lineThick, color),
                RoundedFrames(roundness <= 0, rec, roundness, segments, 2))

DrawTriangle ==
    /\ pc = "ready"
    /\ \E v1 \in Vectors, v2 \in Vectors, v3 \in Vectors, color \in Colors :
           Draw([name |-> "RL_DrawTriangle", v1 |-> v1, v2 |-> v2, v3 |-> v3,
                 color |-> color],
                RL_DrawTriangle(v1, v2, v3, color), NoLocals)

DrawTriangleLines ==
    /\ pc = "ready"
    /\ \E v1 \in Vectors, v2 \in Vectors, v3 \in Vectors, color \in Colors :
           Draw([name |-> "RL_DrawTriangleLines", v1 |-> v1, v2 |-> v2, v3 |-> v3,
                 color |-> color],
                RL_DrawTriangleLines(v1, v2, v3, color), NoLocals)

DrawTriangleFan ==
    /\ pc = "ready"
    /\ \E points \in PointLists, color \in Colors :
           \E pointCount \in PointCounts(points) :
               Draw([name |-> "RL_DrawTriangleFan", points |-> points,
                     pointCount |-> pointCount, color |-> color],
                    RL_DrawTriangleFan(points, pointCount, color), NoLocals)

DrawTriangleStrip ==
    /\ pc = "ready"
    /\ \E points \in PointLists, color \in Colors :
           \E pointCount \in PointCounts(points) :
               Draw([name |-> "RL_DrawTriangleStrip", points |-> points,
                     pointCount |-> pointCount, color |-> color],
                    RL_DrawTriangleStrip(points, pointCount, color), NoLocals)

PolyRadii == {0, One, 10 * One}

DrawPoly ==
    /\ pc = "ready"
    /\ \E center \in Centers, sides \in SideCounts, radius \in PolyRadii,
          rotation \in Rotations, color \in Colors :
           Draw([name |-> "RL_DrawPoly", center |-> center, sides |-> sides,
                 radius |-> radius, rotation |-> rotation, color |-> color],
                RL_DrawPoly(center, sides, radius, rotation, color),
                <<[sides |-> PolySides(sides)]>>)

DrawPolyLines ==
    /\ pc = "ready"
    /\ \E center \in Centers, sides \in SideCounts, radius \in PolyRadii,
          rotation \in Rotations, color \in Colors :
           Draw([name |-> "RL_DrawPolyLines", center |-> center, sides |-> sides,
                 radius |-> radius, rotation |-> rotation, color |-> color],
                RL_DrawPolyLines(center, sides, radius, rotation, color),
                <<[sides |-> PolySides(sides)]>>)

DrawPolyLinesEx ==
    /\ pc = "ready"
    /\ \E center \in Centers, sides \in SideCounts, radius \in PolyRadii,
          rotation \in Rotations, lineThick \in {0, 2 * One}, color \in Colors :
           Draw([name |-> "RL_DrawPolyLinesEx", center |-> center, sides |-> sides,
                 radius |-> radius, rotation |-> rotation, lineThick |-> lineThick,
                 color |-> color],
                RL_DrawPolyLinesEx(center, sides, radius, rotation, lineThick, color),
                <<[sides |-> PolySides(sides)]>>)

\* rectangles of either sign of width and height
CollisionRecs ==
    {[x |-> x, y |-> 0, width |-> w, height |-> h] :
        x \in {0, 2 * One}, w \in {-One, 0, One, 3 * One}, h \in {-One, One}}
CollisionRadii == {-One, 0, One, 3 * One}
Thresholds == {-1, 0, 1}
\* (5, 0.4), (5, 2), (10, 0), (0, 10), (12, 0) and the points of Vectors
LinePoints ==
    Vectors \cup {[x |-> 5 * One, y |-> 8], [x |-> 5 * One, y |-> 2 * One],
                  [x |-> 10 * One, y |-> 0], [x |-> 0, y |-> 10 * One],
                  [x |-> 12 * One, y |-> 0]}
Polygons == {<<>>,
             <<Origin, [x |-> 2 * One, y |-> One]>>,
             <<Origin, [x |-> 4 * One, y |-> 0], [x |-> 4 * One, y |-> 4 * One]>>,
             <<Origin, [x |-> 4 * One, y |-> 0], [x |-> 4 * One, y |-> 4 * One],
               [x |-> 0, y |-> 4 * One], Origin>>,
             <<Origin, [x |-> 4 * One, y |-> 0], [x |-> 4 * One, y |-> 0],
               [x |-> 4 * One, y |-> 4 * One], Origin>>}

CheckCollisionRecs ==
    /\ pc = "ready"
    /\ \E rec1 \in CollisionRecs, rec2 \in CollisionRecs :
           Query([name |-> "RL_CheckCollisionRecs", rec1 |-> rec1, rec2 |-> rec2],
                 RL_CheckCollisionRecs(rec1, rec2))

CheckCollisionCircles ==
    /\ pc = "ready"
    /\ \E center1 \in Vectors, radius1 \in CollisionRadii, center2 \in Vectors,
          radius2 \in CollisionRadii :
           Query([name |-> "RL_CheckCollisionCircles", center1 |-> center1,
                  radius1 |-> radius1, center2 |-> center2, radius2 |-> radius2],
                 RL_CheckCollisionCircles(center1, radius1, center2, radius2))

CheckCollisionCircleRec ==
    /\ pc = "ready"
    /\ \E center \in Vectors, radius \in CollisionRadii, rec \in CollisionRecs :
           Query([name |-> "RL_CheckCollisionCircleRec", center |-> center,
                  radius |-> radius, rec |-> rec],
                 RL_CheckCollisionCircleRec(center, radius, rec))

CheckCollisionPointRec ==
    /\ pc = "ready"
    /\ \E point \in Vectors, rec \in CollisionRecs :
           Query([name |-> "RL_CheckCollisionPointRec", point |-> point, rec |-> rec],
                 RL_CheckCollisionPointRec(point, rec))

CheckCollisionPointCircle ==
    /\ pc = "ready"
    /\ \E point \in Vectors \cup {[x |-> 3 * One, y |-> 4 * One]}, center \in Vectors,
          radius \in CollisionRadii \cup {5 * One} :
           Query([name |-> "RL_CheckCollisionPointCircle", point |-> point,
                  center |-> center, radius |-> radius],
                 RL_CheckCollisionPointCircle(point, center, radius))

\* the corners of triangles, and points inside one, on its edges and outside
Corners == {Origin, [x |-> 4 * One, y |-> 0], [x |-> 0, y |-> 4 * One],
            [x |-> 2 * One, y |-> 2 * One]}
TrianglePoints == {[x |-> One, y |-> One], [x |-> 2 * One, y |-> 0],
                   [x |-> 2 * One, y |-> 2 * One], [x |-> 5 * One, y |-> One],
                   [x |-> 3 * One, y |-> 2 * One]}

CheckCollisionPointTriangle ==
    /\ pc = "ready"
    /\ \E point \in Vectors \cup TrianglePoints, p1 \in Corners, p2 \in Corners,
          p3 \in Corners :
           Query([name |-> "RL_CheckCollisionPointTriangle", point |-> point,
                  p1 |-> p1, p2 |-> p2, p3 |-> p3],
                 RL_CheckCollisionPointTriangle(point, p1, p2, p3))

CheckCollisionPointPoly ==
    /\ pc = "ready"
    /\ \E point \in Vectors, points \in Polygons :
           \E pointCount \in PointCounts(points) :
               /\ pc' = "returned"
               /\ op' = [name |-> "RL_CheckCollisionPointPoly", point |-> point,
                         points |-> points, pointCount |-> pointCount]
               /\ calls' = <<>>
               /\ locals' = <<[divisors |-> PolyDivisors(point, points, pointCount)]>>
               /\ result' = RL_CheckCollisionPointPoly(point, points, pointCount)
               /\ UNCHANGED <<SUPPORT_QUADS_DRAW_MODE, target, texShapes, texShapesRec,
                              rlBatch, rlTexture, rlScoped>>

\* the corners and the middle of a square: segments that cross, that meet at
\* an end, that are parallel, that lie on one line, that reduce to a point
SegmentEnds == {Origin, [x |-> 4 * One, y |-> 0], [x |-> 4 * One, y |-> 4 * One],
                [x |-> 0, y |-> 4 * One], [x |-> 2 * One, y |-> 2 * One]}

CheckCollisionLines ==
    /\ pc = "ready"
    /\ \E startPos1 \in {Origin, [x |-> 0, y |-> 4 * One]}, endPos1 \in SegmentEnds,
          startPos2 \in SegmentEnds, endPos2 \in SegmentEnds, hasPoint \in BOOLEAN :
           Query([name |-> "RL_CheckCollisionLines", startPos1 |-> startPos1,
                  endPos1 |-> endPos1, startPos2 |-> startPos2, endPos2 |-> endPos2,
                  hasPoint |-> hasPoint],
                 RL_CheckCollisionLines(startPos1, endPos1, startPos2, endPos2, hasPoint))

CheckCollisionPointLine ==
    /\ pc = "ready"
    /\ \E point \in LinePoints, p1 \in LinePoints, p2 \in LinePoints,
          threshold \in Thresholds :
           Query([name |-> "RL_CheckCollisionPointLine", point |-> point, p1 |-> p1,
                  p2 |-> p2, threshold |-> threshold],
                 RL_CheckCollisionPointLine(point, p1, p2, threshold))

\* {0,0,10,10}, {5,5,10,10}, {0,0,5,5} and {10,10,5,5}
OverlapRecs ==
    {[x |-> 0, y |-> 0, width |-> 10 * One, height |-> 10 * One],
     [x |-> 5 * One, y |-> 5 * One, width |-> 10 * One, height |-> 10 * One],
     [x |-> 0, y |-> 0, width |-> 5 * One, height |-> 5 * One],
     [x |-> 10 * One, y |-> 10 * One, width |-> 5 * One, height |-> 5 * One]}

GetCollisionRec ==
    /\ pc = "ready"
    /\ \E rec1 \in CollisionRecs \cup OverlapRecs, rec2 \in CollisionRecs \cup OverlapRecs :
           Query([name |-> "RL_GetCollisionRec", rec1 |-> rec1, rec2 |-> rec2],
                 RL_GetCollisionRec(rec1, rec2))

Next ==
    \/ CallSetShapesTexture
    \/ DrawPixel
    \/ DrawPixelV
    \/ DrawLine
    \/ DrawLineV
    \/ DrawLineEx
    \/ DrawLineBezier
    \/ DrawLineBezierQuad
    \/ DrawLineBezierCubic
    \/ DrawLineStrip
    \/ DrawCircle
    \/ DrawCircleSector
    \/ DrawCircleSectorLines
    \/ DrawCircleGradient
    \/ DrawCircleV
    \/ DrawCircleLines
    \/ DrawEllipse
    \/ DrawEllipseLines
    \/ DrawRing
    \/ DrawRingLines
    \/ DrawRectangle
    \/ DrawRectangleV
    \/ DrawRectangleRec
    \/ DrawRectanglePro
    \/ DrawRectangleGradientV
    \/ DrawRectangleGradientH
    \/ DrawRectangleGradientEx
    \/ DrawRectangleLines
    \/ DrawRectangleLinesEx
    \/ DrawRectangleRounded
    \/ DrawRectangleRoundedLines
    \/ DrawTriangle
    \/ DrawTriangleLines
    \/ DrawTriangleFan
    \/ DrawTriangleStrip
    \/ DrawPoly
    \/ DrawPolyLines
    \/ DrawPolyLinesEx
    \/ CheckCollisionRecs
    \/ CheckCollisionCircles
    \/ CheckCollisionCircleRec
    \/ CheckCollisionPointRec
    \/ CheckCollisionPointCircle
    \/ CheckCollisionPointTriangle
    \/ CheckCollisionPointPoly
    \/ CheckCollisionLines
    \/ CheckCollisionPointLine
    \/ GetCollisionRec
    \/ Return

Spec == Init /\ [][Next]_vars

---------------------------------------------------------------------------
(* Properties *)

ArcOps == {"RL_DrawCircleSector", "RL_DrawCircleSectorLines", "RL_DrawRing",
           "RL_DrawRingLines"}
PolyOps == {"RL_DrawPoly", "RL_DrawPolyLines", "RL_DrawPolyLinesEx"}
QueryOps == {"RL_CheckCollisionRecs", "RL_CheckCollisionCircles",
             "RL_CheckCollisionCircleRec", "RL_CheckCollisionPointRec",
             "RL_CheckCollisionPointCircle", "RL_CheckCollisionPointTriangle",
             "RL_CheckCollisionPointPoly", "RL_CheckCollisionLines",
             "RL_CheckCollisionPointLine", "RL_GetCollisionRec"}

\* the operation name has just returned
Returned(name) == pc = "returned" /\ op.name = name

\* the locals of the function whose loop makes the calls
Frame == locals[Len(locals)]

\* the number of calls of one name in a trace
Count(cs, name) == Cardinality({i \in 1..Len(cs) : cs[i][1] = name})

\* what the query o returns, from its arguments alone
QueryResult(o) ==
    CASE o.name = "RL_CheckCollisionRecs" -> RL_CheckCollisionRecs(o.rec1, o.rec2)
      [] o.name = "RL_CheckCollisionCircles" ->
            RL_CheckCollisionCircles(o.center1, o.radius1, o.center2, o.radius2)
      [] o.name = "RL_CheckCollisionCircleRec" ->
            RL_CheckCollisionCircleRec(o.center, o.radius, o.rec)
      [] o.name = "RL_CheckCollisionPointRec" -> RL_CheckCollisionPointRec(o.point, o.rec)
      [] o.name = "RL_CheckCollisionPointCircle" ->
            RL_CheckCollisionPointCircle(o.point, o.center, o.radius)
      [] o.name = "RL_CheckCollisionPointTriangle" ->
            RL_CheckCollisionPointTriangle(o.point, o.p1, o.p2, o.p3)
      [] o.name = "RL_CheckCollisionPointPoly" ->
            RL_CheckCollisionPointPoly(o.point, o.points, o.pointCount)
      [] o.name = "RL_CheckCollisionLines" ->
            RL_CheckCollisionLines(o.startPos1, o.endPos1, o.startPos2, o.endPos2,
                                   o.hasPoint)
      [] o.name = "RL_CheckCollisionPointLine" ->
            RL_CheckCollisionPointLine(o.point, o.p1, o.p2, o.threshold)
      [] o.name = "RL_GetCollisionRec" -> RL_GetCollisionRec(o.rec1, o.rec2)

\* C1: SetShapesTexture(texture, source) leaves the default binding (texture
\* id 1 of size 1x1, source rectangle {0, 0, 1, 1}) exactly when texture.id is
\* 0 or source.width is 0 or source.height is 0, and otherwise leaves exactly
\* (texture, source).
C1_SetShapesTextureBinding ==
    Returned("SetShapesTexture") =>
        IF (op.texture.id = 0) \/ (op.source.width = 0) \/ (op.source.height = 0)
        THEN /\ texShapes.id = 1 /\ texShapes.width = 1 /\ texShapes.height = 1
             /\ texShapesRec = [x |-> 0, y |-> 0, width |-> One, height |-> One]
        ELSE /\ texShapes = op.texture
             /\ texShapesRec = op.source

\* a live texture with a source rectangle of width 0 has given the default
C1_Witness ==
    /\ Returned("SetShapesTexture")
    /\ op.texture.id # 0
    /\ op.source.width = 0
    /\ texShapes.id = 1

\* C2: only SetShapesTexture changes the binding (texShapes, texShapesRec):
\* every step of a drawing function or a collision query leaves it as it was,
\* and a collision query makes no backend call, leaves the backend as it was
\* and returns what its arguments alone determine.
C2_BindingFrame ==
    [][ /\ (op'.name # "SetShapesTexture") =>
               (texShapes' = texShapes /\ texShapesRec' = texShapesRec)
        /\ (op'.name \in QueryOps) =>
               /\ calls' = <<>>
               /\ rlBatch' = rlBatch /\ rlTexture' = rlTexture /\ rlScoped' = rlScoped
               /\ result' = QueryResult(op') ]_vars

\* a drawing function has read a binding that SetShapesTexture had set, and
\* the binding is still that one
C2_Witness ==
    /\ Returned("RL_DrawRectangleGradientEx")
    /\ texShapes.id = 5
    /\ calls[1] = rlSetTexture(5)

\* C3: the backend calls of the drawing functions form well-scoped batches:
\* rlBegin arrives with no batch open, rlEnd and every vertex-level call with
\* one open; each QUADS batch comes right after rlSetTexture(texShapes.id) and
\* is followed at once by rlSetTexture(0); after every call of a drawing
\* function no batch is open and the bound texture is 0.
C3_WellScopedBatches ==
    /\ rlScoped
    /\ rlBatch = "none"
    /\ rlTexture = 0
    /\ \A i \in 1..Len(calls) :
           /\ (calls[i][1] = "rlBegin" /\ calls[i][2] = "RLGL_QUADS") =>
                  /\ i > 1
                  /\ calls[i - 1] = rlSetTexture(texShapes.id)
           /\ (/\ calls[i][1] = "rlEnd"
               /\ RlBatchBefore([batch |-> "none"], calls, i) = "RLGL_QUADS") =>
                  /\ i < Len(calls)
                  /\ calls[i + 1] = rlSetTexture(0)

\* a sector drawn as a QUADS batch under a binding other than the default
C3_Witness ==
    /\ Returned("RL_DrawCircleSector")
    /\ SUPPORT_QUADS_DRAW_MODE
    /\ texShapes.id = 5
    /\ Count(calls, "rlVertex2f") >= 8
    /\ calls[1] = rlSetTexture(5)
    /\ calls[2] = rlBegin("RLGL_QUADS")

\* C4: the segment count with which RL_DrawCircleSector,
\* RL_DrawCircleSectorLines, RL_DrawRing and RL_DrawRingLines iterate is at
\* least minSegments = ceil((endAngle - startAngle)/90) of the normalized span.
C4_SegmentsAtLeastMinSegments ==
    (pc = "returned" /\ op.name \in ArcOps /\ locals # NoLocals) =>
        Frame.segments >= Frame.minSegments

\* C5: with the span fixed and the request below minSegments, the segment
\* count RL_DrawCircleSector derives does not decrease as the radius grows:
\* no smaller radius gets more segments than the radius of this call.
C5_SectorSegmentsMonotone ==
    (Returned("RL_DrawCircleSector") /\ op.segments < Frame.minSegments) =>
        \A r1 \in Radii :
            (r1 <= op.radius) =>
                SectorLocals(r1, op.startAngle, op.endAngle, op.segments).segments
                    <= Frame.segments

\* the calls of the arc function o.name for the arguments of o, with the two
\* angles given
ArcCalls(o, startAngle, endAngle) ==
    CASE o.name = "RL_DrawCircleSector" ->
            RL_DrawCircleSector(o.center, o.radius, startAngle, endAngle,
                                o.segments, o.color)
      [] o.name = "RL_DrawCircleSectorLines" ->
            RL_DrawCircleSectorLines(o.center, o.radius, startAngle, endAngle,
                                     o.segments, o.color)
      [] o.name = "RL_DrawRing" ->
            RL_DrawRing(o.center, o.innerRadius, o.outerRadius, startAngle, endAngle,
                        o.segments, o.color)
      [] o.name = "RL_DrawRingLines" ->
            RL_DrawRingLines(o.center, o.innerRadius, o.outerRadius, startAngle,
                             endAngle, o.segments, o.color)

\* C6: called with startAngle > endAngle, RL_DrawCircleSector,
\* RL_DrawCircleSectorLines, RL_DrawRing and RL_DrawRingLines make exactly the
\* calls they make with the two angles exchanged, and walk the arc from the
\* smaller angle to the larger one.
C6_AngleNormalization ==
    (pc = "returned" /\ op.name \in ArcOps /\ op.startAngle > op.endAngle) =>
        /\ calls = ArcCalls(op, op.endAngle, op.startAngle)
        /\ Frame.startAngle = op.endAngle
        /\ Frame.endAngle = op.startAngle
        /\ Frame.endAngle - Frame.startAngle = Abs(op.endAngle - op.startAngle)

\* a ring outline asked for from 360 down to 100 degrees has been drawn
C6_Witness ==
    /\ Returned("RL_DrawRingLines")
    /\ op.startAngle = 360
    /\ op.endAngle = 100
    /\ op.innerRadius > 0
    /\ Count(calls, "rlVertex2f") >= 8

\* C7: with innerRadius <= 0, innerRadius <= outerRadius and startAngle #
\* endAngle, RL_DrawRing makes exactly the calls of RL_DrawCircleSector(center,
\* outerRadius, startAngle, endAngle, segments, color) and RL_DrawRingLines
\* those of RL_DrawCircleSectorLines with the same arguments: the segment
\* count the ring computes before it hands over changes nothing.
C7_RingDegeneration ==
    (/\ pc = "returned"
     /\ op.name \in {"RL_DrawRing", "RL_DrawRingLines"}
     /\ op.innerRadius <= 0
     /\ op.innerRadius <= op.outerRadius
     /\ op.startAngle # op.endAngle) =>
        /\ op.name = "RL_DrawRing" =>
               calls = RL_DrawCircleSector(op.center, op.outerRadius, op.startAngle,
                                           op.endAngle, op.segments, op.color)
        /\ op.name = "RL_DrawRingLines" =>
               calls = RL_DrawCircleSectorLines(op.center, op.outerRadius, op.startAngle,
                                                op.endAngle, op.segments, op.color)

\* a ring of inner radius 0 and outer radius 10.0 drawn over the full turn
\* with the segment count left to the function
C7_Witness ==
    /\ Returned("RL_DrawRing")
    /\ op.innerRadius = 0
    /\ op.outerRadius = 10 * One
    /\ op.startAngle = 0
    /\ op.endAngle = 360
    /\ op.segments = 0
    /\ Len(locals) = 2
    /\ Count(calls, "rlVertex2f") >= 8

\* C8: whenever roundness <= 0 or rec.width < 1 or rec.height < 1,
\* RL_DrawRectangleRounded(rec, roundness, segments, color) makes exactly the
\* backend calls of RL_DrawRectangleRec(rec, color), whatever segments is.
C8_RoundedDegeneration ==
    (/\ Returned("RL_DrawRectangleRounded")
     /\ (op.roundness <= 0) \/ (op.rec.width < One) \/ (op.rec.height < One)) =>
        calls = RL_DrawRectangleRec(op.rec, op.color)

\* a rectangle 0.4 wide asked for with a positive roundness
C8_Witness ==
    /\ Returned("RL_DrawRectangleRounded")
    /\ op.roundness > 0
    /\ op.rec.width > 0
    /\ op.rec.width < One
    /\ op.segments = 5
    /\ Count(calls, "rlVertex2f") >= 4

\* the calls of the polygon function o.name for the arguments of o, with the
\* number of sides given
PolyCalls(o, sides) ==
    CASE o.name = "RL_DrawPoly" ->
            RL_DrawPoly(o.center, sides, o.radius, o.rotation, o.color)
      [] o.name = "RL_DrawPolyLines" ->
            RL_DrawPolyLines(o.center, sides, o.radius, o.rotation, o.color)
      [] o.name = "RL_DrawPolyLinesEx" ->
            RL_DrawPolyLinesEx(o.center, sides, o.radius, o.rotation, o.lineThick,
                               o.color)

\* the vertices of one primitive group: a fan triangle (sent as a quad on the
\* QUADS path), a line segment, a band quad (sent as two triangles on the
\* TRIANGLES path)
GroupVertices(name) ==
    CASE name = "RL_DrawPoly"        -> IF SUPPORT_QUADS_DRAW_MODE THEN 4 ELSE 3
      [] name = "RL_DrawPolyLines"   -> 2
      [] name = "RL_DrawPolyLinesEx" -> IF SUPPORT_QUADS_DRAW_MODE THEN 4 ELSE 6

\* C9: with sides < 3 (0 and negative values included) RL_DrawPoly,
\* RL_DrawPolyLines and RL_DrawPolyLinesEx make exactly the calls they make
\* with sides = 3; with sides >= 3 each sends exactly one primitive group per
\* side.
C9_PolygonSideClamp ==
    (pc = "returned" /\ op.name \in PolyOps) =>
        /\ (op.sides < 3) => (calls = PolyCalls(op, 3))
        /\ (op.sides >= 3) =>
               /\ Count(calls, "rlColor4ub") = op.sides
               /\ Count(calls, "rlVertex2f") = op.sides * GroupVertices(op.name)

\* a polygon outline asked for with no side at all has been drawn as a triangle
C9_Witness ==
    /\ Returned("RL_DrawPolyLinesEx")
    /\ op.sides = 0
    /\ Count(calls, "rlColor4ub") = 3

\* C10: RL_CheckCollisionRecs(A, B) = RL_CheckCollisionRecs(B, A) for all
\* rectangles A and B, whatever the sign of their width and height.
C10_CollisionRecsSymmetric ==
    Returned("RL_CheckCollisionRecs") =>
        (result = RL_CheckCollisionRecs(op.rec2, op.rec1))

\* a rectangle of negative width has been found to collide with another
C10_Witness ==
    /\ Returned("RL_CheckCollisionRecs")
    /\ op.rec1.width < 0
    /\ op.rec2.width > 0
    /\ result = TRUE

\* C11: for all rectangles A and B, zero width or height included, the area
\* width * height of RL_GetCollisionRec(A, B) is 0 if and only if
\* RL_CheckCollisionRecs(A, B) is false.
C11_AreaZeroIffNoCollision ==
    Returned("RL_GetCollisionRec") =>
        ((result.width * result.height = 0)
            <=> ~RL_CheckCollisionRecs(op.rec1, op.rec2))

\* C12: RL_GetCollisionRec(A, B) returns {left, top, right - left, bottom - top}
\* with left = max(A.x, B.x), right = min(A.x + A.width, B.x + B.width),
\* top = max(A.y, B.y), bottom = min(A.y + A.height, B.y + B.height) when
\* left < right and top < bottom, and the all-zero rectangle otherwise;
\* ({0,0,10,10}, {5,5,10,10}) gives {5,5,5,5}, ({0,0,5,5}, {10,10,5,5}) gives
\* {0,0,0,0}, and (B, A) gives what (A, B) gives.
C12_GetCollisionRecValue ==
    Returned("RL_GetCollisionRec") =>
        LET A == op.rec1
            B == op.rec2
            left == MaxOf(A.x, B.x)
            right == MinOf(A.x + A.width, B.x + B.width)
            top == MaxOf(A.y, B.y)
            bottom == MinOf(A.y + A.height, B.y + B.height)
            ten == 10 * One
            five == 5 * One
        IN  /\ (left < right /\ top < bottom) =>
                   result = [x |-> left, y |-> top, width |-> right - left,
                             height |-> bottom - top]
            /\ ~(left < right /\ top < bottom) =>
                   result = [x |-> 0, y |-> 0, width |-> 0, height |-> 0]
            /\ (A = [x |-> 0, y |-> 0, width |-> ten, height |-> ten]
                  /\ B = [x |-> five, y |-> five, width |-> ten, height |-> ten]) =>
                   result = [x |-> five, y |-> five, width |-> five, height |-> five]
            /\ (A = [x |-> 0, y |-> 0, width |-> five, height |-> five]
                  /\ B = [x |-> ten, y |-> ten, width |-> five, height |-> five]) =>
                   result = [x |-> 0, y |-> 0, width |-> 0, height |-> 0]
            /\ result = RL_GetCollisionRec(B, A)

\* the overlap of {0,0,10,10} and {5,5,10,10} has been returned
C12_Witness ==
    /\ Returned("RL_GetCollisionRec")
    /\ op.rec1 = [x |-> 0, y |-> 0, width |-> 10 * One, height |-> 10 * One]
    /\ op.rec2 = [x |-> 5 * One, y |-> 5 * One, width |-> 10 * One, height |-> 10 * One]
    /\ result.width = 5 * One

\* C13: for all points p, centers c and radii r,
\* RL_CheckCollisionPointCircle(p, c, r) = RL_CheckCollisionCircles(p, 0, c, r),
\* and it is true exactly when the distance from p to c is <= r, the boundary
\* included.
C13_PointCircleIsCircles ==
    Returned("RL_CheckCollisionPointCircle") =>
        LET dx == op.point.x - op.center.x
            dy == op.point.y - op.center.y
        IN  /\ result = RL_CheckCollisionCircles(op.point, 0, op.center, op.radius)
            /\ result = (op.radius >= 0 /\ dx * dx + dy * dy <= op.radius * op.radius)

\* a point at distance 5.0 from the center of a circle of radius 5.0 collides
C13_Witness ==
    /\ Returned("RL_CheckCollisionPointCircle")
    /\ op.point = [x |-> 3 * One, y |-> 4 * One]
    /\ op.center = Origin
    /\ op.radius = 5 * One
    /\ result = TRUE

\* C14: RL_CheckCollisionPointLine(point, p1, p2, threshold) returns true iff
\* |cross| < threshold * max(|p2.x - p1.x|, |p2.y - p1.y|), where cross is
\* (point - p1) x (p2 - p1), and the point's coordinate on the dominant axis of
\* the segment (x when |dx| >= |dy|, else y) lies in the closed range between
\* p1 and p2 on that axis; ((5, 0.4), (0, 0), (10, 0), 1) is true,
\* ((5, 2), (0, 0), (10, 0), 1) is false, and the result is false whenever
\* threshold <= 0 or p1 = p2.
C14_PointLineValue ==
    Returned("RL_CheckCollisionPointLine") =>
        LET dx == op.p2.x - op.p1.x
            dy == op.p2.y - op.p1.y
            cross == (op.point.x - op.p1.x) * dy - (op.point.y - op.p1.y) * dx
            near == Abs(cross) < op.threshold * One * MaxOf(Abs(dx), Abs(dy))
            within == IF Abs(dx) >= Abs(dy)
                      THEN /\ MinOf(op.p1.x, op.p2.x) <= op.point.x
                           /\ op.point.x <= MaxOf(op.p1.x, op.p2.x)
                      ELSE /\ MinOf(op.p1.y, op.p2.y) <= op.point.y
                           /\ op.point.y <= MaxOf(op.p1.y, op.p2.y)
            onAxis == op.p1 = Origin /\ op.p2 = [x |-> 10 * One, y |-> 0]
                         /\ op.threshold = 1
        IN  /\ result = (near /\ within)
            /\ (onAxis /\ op.point = [x |-> 5 * One, y |-> 8]) => (result = TRUE)
            /\ (onAxis /\ op.point = [x |-> 5 * One, y |-> 2 * One]) => (result = FALSE)
            /\ (op.threshold <= 0 \/ op.p1 = op.p2) => (result = FALSE)

\* the point (5, 0.4) has been found on the segment from (0, 0) to (10, 0)
C14_Witness ==
    /\ Returned("RL_CheckCollisionPointLine")
    /\ op.point = [x |-> 5 * One, y |-> 8]
    /\ op.p1 = Origin
    /\ op.p2 = [x |-> 10 * One, y |-> 0]
    /\ op.threshold = 1
    /\ result = TRUE

\* twice the signed area of the triangle (a, b, c)
Orient(a, b, c) == (b.x - a.x) * (c.y - a.y) - (b.y - a.y) * (c.x - a.x)

\* the point lies strictly inside the triangle: strictly on the inner side of
\* each of its three edges
StrictlyInside(point, p1, p2, p3) ==
    LET o == Orient(p1, p2, p3)
    IN  \/ o > 0 /\ Orient(p1, p2, point) > 0 /\ Orient(p2, p3, point) > 0
              /\ Orient(p3, p1, point) > 0
        \/ o < 0 /\ Orient(p1, p2, point) < 0 /\ Orient(p2, p3, point) < 0
              /\ Orient(p3, p1, point) < 0

\* C15: for every non-degenerate triangle (p1, p2, p3) in either winding
\* order, RL_CheckCollisionPointTriangle returns true iff the point lies
\* strictly inside the triangle; a point on an edge, on a vertex or outside
\* gives false, and the result is the same in whatever order the three
\* vertices are passed.
C15_PointTriangleStrictlyInside ==
    (Returned("RL_CheckCollisionPointTriangle")
        /\ Orient(op.p1, op.p2, op.p3) # 0) =>
        /\ result = StrictlyInside(op.point, op.p1, op.p2, op.p3)
        /\ result = RL_CheckCollisionPointTriangle(op.point, op.p1, op.p3, op.p2)
        /\ result = RL_CheckCollisionPointTriangle(op.point, op.p2, op.p1, op.p3)
        /\ result = RL_CheckCollisionPointTriangle(op.point, op.p2, op.p3, op.p1)
        /\ result = RL_CheckCollisionPointTriangle(op.point, op.p3, op.p1, op.p2)
        /\ result = RL_CheckCollisionPointTriangle(op.point, op.p3, op.p2, op.p1)

\* a point on an edge of a clockwise triangle has been found not to collide
C15_Witness ==
    /\ Returned("RL_CheckCollisionPointTriangle")
    /\ Orient(op.p1, op.p2, op.p3) < 0
    /\ op.point = [x |-> 2 * One, y |-> 0]
    /\ Orient(op.p1, op.p2, op.point) = 0
    /\ result = FALSE

\* the y-span of the edge (a, b) straddles point.y and the edge crosses the
\* horizontal through the point to the right of point.x
EdgeRightOf(point, a, b) ==
    /\ (a.y >= point.y) # (b.y >= point.y)
    /\ IF b.y > a.y
       THEN (point.x - a.x) * (b.y - a.y) < (b.x - a.x) * (point.y - a.y)
       ELSE (point.x - a.x) * (b.y - a.y) > (b.x - a.x) * (point.y - a.y)

\* the number of elements of a set of edges is odd
Odd(edges) == Cardinality(edges) % 2 = 1

C17_CircleRecNearestPoint ==
    (Returned("RL_CheckCollisionCircleRec")
        /\ op.rec.width >= 0 /\ op.rec.height >= 0 /\ op.radius >= 0) =>
        LET dx2 == Abs(2 * op.center.x - (2 * op.rec.x + op.rec.width))
            dy2 == Abs(2 * op.center.y - (2 * op.rec.y + op.rec.height))
            ex2 == MaxOf(dx2 - op.rec.width, 0)
            ey2 == MaxOf(dy2 - op.rec.height, 0)
        IN  result = (ex2 * ex2 + ey2 * ey2 <= 4 * op.radius * op.radius)

ErrorRateOps == {"RL_DrawCircleSector", "RL_DrawCircleSectorLines", "RL_DrawRing",
                 "RL_DrawRingLines", "RL_DrawRectangleRounded",
                 "RL_DrawRectangleRoundedLines"}

\* C19: in every operation that evaluates the error-rate formula
\* (RL_DrawCircleSector, RL_DrawCircleSectorLines, RL_DrawRing,
\* RL_DrawRingLines, RL_DrawRectangleRounded, RL_DrawRectangleRoundedLines) the
\* radius that SMOOTH_CIRCLE_ERROR_RATE is divided by is strictly positive for
\* every input: a radius <= 0 is clamped to 0.1, or the call returns, before
\* the formula is reached.
C19_ErrorRateDivisorPositive ==
    (pc = "returned" /\ op.name \in ErrorRateOps) =>
        \A i \in 1..Len(locals) :
            (locals[i].divisor # <<>>) => (locals[i].divisor[1] > 0)

\* the quotient num/div lies between a and b, for a segment with ends a and b
\* on one axis; nothing is asked of a segment of no extent on that axis
WithinExtent(num, div, a, b) ==
    (a # b) =>
        IF div > 0
        THEN MinOf(a, b) * div <= num /\ num <= MaxOf(a, b) * div
        ELSE MinOf(a, b) * div >= num /\ num >= MaxOf(a, b) * div

\* the point (xn/div, yn/div) lies on the infinite line through a and b
OnLine(xn, yn, div, a, b) ==
    (xn - a.x * div) * (b.y - a.y) = (yn - a.y * div) * (b.x - a.x)

FilledOps == {"RL_DrawPixel", "RL_DrawPixelV", "RL_DrawCircle", "RL_DrawCircleV",
              "RL_DrawCircleSector", "RL_DrawCircleGradient", "RL_DrawEllipse",
              "RL_DrawRing", "RL_DrawRectangle", "RL_DrawRectangleV",
              "RL_DrawRectangleRec", "RL_DrawRectanglePro",
              "RL_DrawRectangleGradientV", "RL_DrawRectangleGradientH",
              "RL_DrawRectangleGradientEx", "RL_DrawRectangleRounded",
              "RL_DrawTriangle", "RL_DrawTriangleFan", "RL_DrawTriangleStrip",
              "RL_DrawPoly"}

\* the operations written with the QUADS path alone, and with the TRIANGLES
\* path alone (with the operations that draw through them)
QuadsOnlyOps == {"RL_DrawRectangleGradientEx", "RL_DrawRectangleGradientV",
                 "RL_DrawRectangleGradientH", "RL_DrawTriangleFan"}
TrianglesOnlyOps == {"RL_DrawTriangleStrip", "RL_DrawLineEx", "RL_DrawLineBezier",
                     "RL_DrawLineBezierQuad", "RL_DrawLineBezierCubic",
                     "RL_DrawCircleGradient", "RL_DrawEllipse"}

\* a drawing operation has just returned after making calls
Drawn == pc = "returned" /\ op.name \notin QueryOps /\ calls # <<>>

\* the trace opens a batch of the kind mode
Opens(cs, mode) == \E i \in 1..Len(cs) : cs[i][1] = "rlBegin" /\ cs[i][2] = mode

\* every call of the trace, those of its loops included, satisfies the test
\* named by kind: "untextured" (it neither binds a texture nor sets texture
\* coordinates) or "bound" (the texture it binds is none or that of the
\* binding, the coordinates it sets are a corner of the binding's rectangle)
CallIs(kind, c) ==
    IF kind = "untextured" THEN c[1] \notin {"rlSetTexture", "rlTexCoord2f"}
    ELSE /\ (c[1] = "rlSetTexture") => (c[2] \in {0, texShapes.id})
         /\ (c[1] = "rlTexCoord2f") =>
                \E t \in {TexTL, TexBL, TexBR, TexTR} : c[2] = t[2] /\ c[3] = t[3]
AllCalls(kind, cs) ==
    \A i \in 1..Len(cs) :
        IF cs[i][1] = "rlLoop"
        THEN /\ \A k \in 1..Len(cs[i][3]) : CallIs(kind, cs[i][3][k])
             /\ \A k \in 1..Len(cs[i][4]) : CallIs(kind, cs[i][4][k])
        ELSE CallIs(kind, cs[i])

\* C20: the primitive kind of every filled-shape batch is fixed by the
\* build-time mode alone: built without SUPPORT_QUADS_DRAW_MODE, no
\* shape-drawing operation opens a QUADS batch, binds the shape texture or
\* emits texture coordinates (TRIANGLES, colour only); built with it, every
\* filled-shape operation emits QUADS with texture coordinates taken from the
\* shape-texture binding.
C20_KindFixedByBuildMode ==
    Drawn =>
        /\ ~SUPPORT_QUADS_DRAW_MODE =>
               /\ ~Opens(calls, "RLGL_QUADS")
               /\ AllCalls("untextured", calls)
        /\ (SUPPORT_QUADS_DRAW_MODE /\ op.name \in FilledOps) =>
               /\ Opens(calls, "RLGL_QUADS")
               /\ ~Opens(calls, "RLGL_TRIANGLES")
               /\ AllCalls("bound", calls)

\* C20, amended: the build-time mode fixes the primitive kind of the
\* operations that have both paths.  Built without SUPPORT_QUADS_DRAW_MODE, no
\* operation but RL_DrawRectangleGradientEx (with GradientV and GradientH,
\* which call it) and RL_DrawTriangleFan opens a QUADS batch, binds a texture
\* or emits texture coordinates, and the other filled shapes are TRIANGLES;
\* built with it, every filled-shape operation but RL_DrawTriangleStrip,
\* RL_DrawCircleGradient and RL_DrawEllipse emits QUADS only, with texture
\* coordinates taken from the shape-texture binding.  The four QUADS-only
\* operations emit textured QUADS, and the TRIANGLES-only operations
\* untextured TRIANGLES, in both builds.
C20_KindFixedWhereBothPaths ==
    Drawn =>
        /\ (~SUPPORT_QUADS_DRAW_MODE /\ op.name \notin QuadsOnlyOps) =>
               /\ ~Opens(calls, "RLGL_QUADS")
               /\ AllCalls("untextured", calls)
               /\ (op.name \in FilledOps) => Opens(calls, "RLGL_TRIANGLES")
        /\ (SUPPORT_QUADS_DRAW_MODE /\ op.name \in FilledOps \ TrianglesOnlyOps) =>
               /\ Opens(calls, "RLGL_QUADS")
               /\ ~Opens(calls, "RLGL_TRIANGLES")
               /\ AllCalls("bound", calls)
        /\ (op.name \in QuadsOnlyOps) =>
               /\ Opens(calls, "RLGL_QUADS")
               /\ ~Opens(calls, "RLGL_TRIANGLES")
               /\ AllCalls("bound", calls)
        /\ (op.name \in TrianglesOnlyOps) =>
               /\ Opens(calls, "RLGL_TRIANGLES")
               /\ ~Opens(calls, "RLGL_QUADS")
               /\ AllCalls("untextured", calls)

\* after a shape texture was set, a build with the mode has drawn a triangle
\* as QUADS and a triangle strip as TRIANGLES
C20_Witness ==
    /\ Drawn
    /\ SUPPORT_QUADS_DRAW_MODE
    /\ texShapes.id = 5
    /\ \/ op.name = "RL_DrawTriangle" /\ Opens(calls, "RLGL_QUADS")
       \/ op.name = "RL_DrawTriangleStrip" /\ Opens(calls, "RLGL_TRIANGLES")

BezierOps == {"RL_DrawLineBezier", "RL_DrawLineBezierQuad", "RL_DrawLineBezierCubic"}

\* the rim point sent by the call c of a curve's strip: the curve, the sample
\* it is moved from, and what it is moved by
RimCurve(c) == c[2][2]
RimBase(c) == BezierSample(c[2][2], c[2][3])
RimOffset(c) == BezierOffset(c[2][2], c[2][4], c[2][5])

\* no two consecutive samples of the curve coincide
SamplesDistinct(curve) ==
    \A i \in 1..BEZIER_LINE_DIVISIONS : BezierSample(curve, i) # BezierSample(curve, i - 1)

\* the rim points a and b are symmetric about the point at (numerators over
\* the curve's denominator), each at distance thick/2 from it along the normal
\* of the sample segment seg
RimPair(a, b, at, seg, thick) ==
    LET oa == RimOffset(a)
        ob == RimOffset(b)
        d  == BezierDelta(RimCurve(a), seg)
    IN  /\ RimBase(a) = at /\ RimBase(b) = at
        /\ oa.nx = -ob.nx /\ oa.ny = -ob.ny
        /\ oa.num = thick /\ ob.num = thick
        /\ oa.den2 = ob.den2
        /\ oa.den2 = 4 * (oa.nx * oa.nx + oa.ny * oa.ny)
        /\ oa.nx * d.dx + oa.ny * d.dy = 0

\* C21: for RL_DrawLineBezier, RL_DrawLineBezierQuad and
\* RL_DrawLineBezierCubic with thick > 0 and no two consecutive samples
\* coinciding, the first pair (points[0], points[1]) of the strip is symmetric
\* about startPos and its last pair (points[2*DIVISIONS],
\* points[2*DIVISIONS+1]) is symmetric about endPos, each rim point lying at
\* distance thick/2 from that end along the normal of the adjacent sample
\* segment; for P0 = (0,0), C = (5,10), P1 = (10,0), thick = 2 both pairs are
\* at distance 1.
C21_BezierEndPairs ==
    (pc = "returned" /\ op.name \in BezierOps /\ op.thick > 0
        /\ SamplesDistinct(RimCurve(calls[4]))) =>
        LET n   == Len(calls)
            den == BezierDen(RimCurve(calls[4]))
        IN  /\ RimPair(calls[4], calls[5],
                       [x |-> op.startPos.x * den, y |-> op.startPos.y * den],
                       1, op.thick)
            /\ RimPair(calls[n - 2], calls[n - 3],
                       [x |-> op.endPos.x * den, y |-> op.endPos.y * den],
                       BEZIER_LINE_DIVISIONS, op.thick)
            /\ (op.name = "RL_DrawLineBezierQuad" /\ op.startPos = Origin
                   /\ op.controlPos = [x |-> 5 * One, y |-> 10 * One]
                   /\ op.endPos = [x |-> 10 * One, y |-> 0] /\ op.thick = 2 * One) =>
                   /\ RimOffset(calls[4]).num = 2 * One
                   /\ RimOffset(calls[n - 2]).num = 2 * One

\* the curve from (0,0) to (10,0) with control point (5,10) has been drawn
\* with thick = 2, its first rim point moved off (0,0) along (23, -12)
C21_Witness ==
    /\ Returned("RL_DrawLineBezierQuad")
    /\ op.startPos = Origin
    /\ op.controlPos = [x |-> 5 * One, y |-> 10 * One]
    /\ op.endPos = [x |-> 10 * One, y |-> 0]
    /\ op.thick = 2 * One
    /\ RimBase(calls[4]) = [x |-> 0, y |-> 0]
    /\ RimOffset(calls[4]).den2 > 0
    /\ RimOffset(calls[4]).nx = 23
    /\ RimOffset(calls[4]).ny = -12

\* the rlVertex2f calls of a trace, in order
VertexCalls(cs) ==
    LET IsVertex(c) == c[1] = "rlVertex2f"
    IN  SelectSeq(cs, IsVertex)

\* the inner points P8, P9, P10, P11 of a rounded rectangle of corner radius r
InnerPoints(rec, r) ==
    <<[x |-> rec.x + r, y |-> rec.y + r],
      [x |-> rec.x + rec.width - r, y |-> rec.y + r],
      [x |-> rec.x + rec.width - r, y |-> rec.y + rec.height - r],
      [x |-> rec.x + r, y |-> rec.y + rec.height - r]>>

\* the corners of the five body rectangles: top, right, bottom, left, middle
BodyRectangles(rec, r) ==
    LET x0 == rec.x
        y0 == rec.y
        x1 == rec.x + rec.width
        y1 == rec.y + rec.height
    IN  <<{<<x0 + r, y0>>, <<x1 - r, y0>>, <<x0 + r, y0 + r>>, <<x1 - r, y0 + r>>},
          {<<x1 - r, y0 + r>>, <<x1, y0 + r>>, <<x1 - r, y1 - r>>, <<x1, y1 - r>>},
          {<<x0 + r, y1 - r>>, <<x1 - r, y1 - r>>, <<x0 + r, y1>>, <<x1 - r, y1>>},
          {<<x0, y0 + r>>, <<x0 + r, y0 + r>>, <<x0, y1 - r>>, <<x0 + r, y1 - r>>},
          {<<x0 + r, y0 + r>>, <<x1 - r, y0 + r>>, <<x0 + r, y1 - r>>, <<x1 - r, y1 - r>>}>>

\* the vertex v is the point of parameter k on the arc of corner c (0..3)
OnCorner(v, rec, r, c, k, segments) ==
    LET center == InnerPoints(rec, r)[c + 1]
    IN  /\ v[2][1] = "arc"
        /\ v = rlVertexArc(center, r, Angle(<<180, 270, 0, 90>>[c + 1], k, 90, segments))

\* the vertex v is the centre of corner c
AtCenter(v, rec, r, c) ==
    LET center == InnerPoints(rec, r)[c + 1]
    IN  v[2][1] = "xy" /\ v = rlVertex2f(center.x, center.y)

\* the vertices v[from + 1 .. from + n] are exactly the corners of the body
\* rectangle m (1..5)
BodyAt(v, from, n, rec, r, m) ==
    /\ \A j \in 1..n : v[from + j][2][1] = "xy"
    /\ {<<v[from + j][2][2], v[from + j][2][3]>> : j \in 1..n} = BodyRectangles(rec, r)[m]

\* C22: for roundness > 0, rec.width >= 1 and rec.height >= 1,
\* RL_DrawRectangleRounded emits one batch made of 4 corner fans, centred at
\* the inner points P8, P9, P10, P11 and each sweeping 90 degrees from 180,
\* 270, 0 and 90 degrees in `segments` steps of 90/segments, followed by
\* exactly 5 body rectangles (top, right, bottom, left, middle):
\* 12*segments + 30 vertices on the TRIANGLES path and
\* 4*(4*(segments/2 + segments%2) + 5) vertices on the QUADS path; a roundness
\* above 1 gives the same output as roundness 1.
C22_RoundedDecomposition ==
    (Returned("RL_DrawRectangleRounded") /\ op.roundness > 0
        /\ op.rec.width >= One /\ op.rec.height >= One) =>
        LET segments == Frame.segments
            r == Frame.radius
            v == VertexCalls(calls)
            q == segments \div 2
            o == segments % 2
        IN  /\ Len(locals) = 1
            /\ Count(calls, "rlBegin") = 1 /\ Count(calls, "rlEnd") = 1
            /\ calls[Len(calls)][1] \in {"rlEnd", "rlSetTexture"}
            /\ ~SUPPORT_QUADS_DRAW_MODE =>
                   /\ Opens(calls, "RLGL_TRIANGLES")
                   /\ Len(v) = 12 * segments + 30
                   /\ \A c \in 0..3 : \A i \in 0..(segments - 1) :
                          LET b == 3 * (c * segments + i)
                          IN  /\ AtCenter(v[b + 1], op.rec, r, c)
                              /\ OnCorner(v[b + 2], op.rec, r, c, i + 1, segments)
                              /\ OnCorner(v[b + 3], op.rec, r, c, i, segments)
                   /\ \A m \in 1..5 :
                          BodyAt(v, 12 * segments + 6 * (m - 1), 6, op.rec, r, m)
            /\ SUPPORT_QUADS_DRAW_MODE =>
                   /\ Opens(calls, "RLGL_QUADS")
                   /\ Len(v) = 4 * (4 * (q + o) + 5)
                   /\ \A c \in 0..3 :
                          /\ \A j \in 0..(q - 1) :
                                 LET b == 4 * (c * (q + o) + j)
                                 IN  /\ AtCenter(v[b + 1], op.rec, r, c)
                                     /\ OnCorner(v[b + 2], op.rec, r, c, 2 * j + 2, segments)
                                     /\ OnCorner(v[b + 3], op.rec, r, c, 2 * j + 1, segments)
                                     /\ OnCorner(v[b + 4], op.rec, r, c, 2 * j, segments)
                          /\ (o = 1) =>
                                 LET b == 4 * (c * (q + o) + q)
                                 IN  /\ AtCenter(v[b + 1], op.rec, r, c)
                                     /\ OnCorner(v[b + 2], op.rec, r, c, segments, segments)
                                     /\ OnCorner(v[b + 3], op.rec, r, c, segments - 1, segments)
                                     /\ AtCenter(v[b + 4], op.rec, r, c)
                   /\ \A m \in 1..5 :
                          BodyAt(v, 16 * (q + o) + 4 * (m - 1), 4, op.rec, r, m)
            /\ (op.roundness > One) =>
                   calls = RL_DrawRectangleRounded(op.rec, One, op.segments, op.color)

\* a rounded rectangle asked for with roundness 2 and 5 segments has been drawn
\* with quads, the odd segment of each corner as a piece of its own
C22_Witness ==
    /\ Returned("RL_DrawRectangleRounded")
    /\ SUPPORT_QUADS_DRAW_MODE
    /\ op.roundness = 2 * One
    /\ op.segments = 5
    /\ op.rec.width >= One /\ op.rec.height >= One
    /\ Count(calls, "rlVertex2f") = 68

\* C23: RL_DrawTriangleStrip with pointCount >= 3 emits one TRIANGLES batch of
\* exactly 3*(pointCount - 2) vertices: for i = 2..pointCount-1 in increasing
\* order, the triangle [i, i-2, i-1] when i is even and [i, i-1, i-2] when i is
\* odd, reading only indices in 0..pointCount-1; with pointCount < 3 it makes
\* no backend call at all.
C23_TriangleStripOrder ==
    Returned("RL_DrawTriangleStrip") =>
        LET n == op.pointCount
            v == VertexCalls(calls)
        IN  /\ (n < 3) => (calls = <<>>)
            /\ (n >= 3) =>
                   /\ Len(calls) = 3 * (n - 2) + 3
                   /\ calls[1][1] = "rlBegin" /\ calls[1][2] = "RLGL_TRIANGLES"
                   /\ calls[2][1] = "rlColor4ub"
                   /\ calls[Len(calls)][1] = "rlEnd"
                   /\ Len(v) = 3 * (n - 2)
                   /\ \A i \in 2..(n - 1) :
                          LET b == 3 * (i - 2)
                              second == IF i % 2 = 0 THEN i - 2 ELSE i - 1
                              third  == IF i % 2 = 0 THEN i - 1 ELSE i - 2
                          IN  /\ {i, second, third} \subseteq 0..(n - 1)
                              /\ v[b + 1][2] = op.points[i + 1]
                              /\ v[b + 2][2] = op.points[second + 1]
                              /\ v[b + 3][2] = op.points[third + 1]

\* a strip of six different points has been drawn as four triangles
C23_Witness ==
    /\ Returned("RL_DrawTriangleStrip")
    /\ op.pointCount = 6
    /\ Count(calls, "rlVertex2f") = 12

\* C24: each of RL_DrawLineBezier, RL_DrawLineBezierQuad and
\* RL_DrawLineBezierCubic writes every index 0..2*BEZIER_LINE_DIVISIONS+1 of
\* its point strip exactly once (indices 0 and 1 on the first iteration,
\* indices 2i and 2i+1 on iteration i = 1..DIVISIONS) and no index outside the
\* array, then passes exactly 2*DIVISIONS+2 points to the triangle-strip
\* emitter, which emits 2*DIVISIONS triangles.
C24_BezierStripIndices ==
    (pc = "returned" /\ op.name \in BezierOps) =>
        LET w    == Frame.written
            size == 2 * BEZIER_LINE_DIVISIONS + 2
        IN  /\ \A j \in DOMAIN w : w[j] \in 0..(size - 1)
            /\ \A k \in 0..(size - 1) : Cardinality({j \in DOMAIN w : w[j] = k}) = 1
            /\ w[1] = 0 /\ w[2] = 1
            /\ \A i \in 1..BEZIER_LINE_DIVISIONS :
                   {w[2 * i + 1], w[2 * i + 2]} = {2 * i, 2 * i + 1}
            /\ Frame.pointCount = size
            /\ Len(VertexCalls(calls)) = 3 * 2 * BEZIER_LINE_DIVISIONS
            /\ \A j \in 1..Len(calls) :
                   (calls[j][1] = "rlVertex2f") => (calls[j][2][1] = "bezier")

\* a cubic curve has been drawn as 48 triangles from a strip of 50 points
C24_Witness ==
    /\ Returned("RL_DrawLineBezierCubic")
    /\ Len(Frame.written) = 50
    /\ Count(calls, "rlVertex2f") = 144

\* the four border rectangles RL_DrawRectangleLinesEx hands to
\* RL_DrawRectangleRec when it draws with thickness t: top, bottom, left, right
BorderRectangles(rec, t) ==
    <<[x |-> rec.x, y |-> rec.y, width |-> rec.width, height |-> t],
      [x |-> rec.x, y |-> rec.y - t + rec.height, width |-> rec.width, height |-> t],
      [x |-> rec.x, y |-> rec.y + t, width |-> t, height |-> rec.height - t * 2],
      [x |-> rec.x - t + rec.width, y |-> rec.y + t, width |-> t,
       height |-> rec.height - t * 2]>>

\* rectangle b has non-negative extents and lies inside rec
InsideRec(b, rec) ==
    /\ b.width >= 0 /\ b.height >= 0
    /\ b.x >= rec.x /\ b.y >= rec.y
    /\ b.x + b.width <= rec.x + rec.width
    /\ b.y + b.height <= rec.y + rec.height

\* C25: for every rec with positive width and height and every
\* lineThick >= 0, RL_DrawRectangleLinesEx clamps an excessive thickness so
\* that the four border rectangles it draws (top, bottom, left, right) all
\* have non-negative width and height and lie inside rec, i.e. the effective
\* thickness is at most min(rec.width, rec.height)/2, including when rec is
\* square.
C25_LinesExThicknessClamped ==
    (/\ Returned("RL_DrawRectangleLinesEx")
     /\ op.rec.width > 0 /\ op.rec.height > 0 /\ op.lineThick >= 0) =>
        LET t == Frame.lineThick
            b == BorderRectangles(op.rec, t)
        IN  /\ 2 * t <= op.rec.width /\ 2 * t <= op.rec.height
            /\ \A k \in 1..4 : InsideRec(b[k], op.rec)
            /\ calls = RL_DrawRectangleRec(b[1], op.color) \o RL_DrawRectangleRec(b[2], op.color)
                       \o RL_DrawRectangleRec(b[3], op.color) \o RL_DrawRectangleRec(b[4], op.color)

\* the requests for a computed segment count: those under minSegments
AutoRequests(minSegments) == {s \in SegmentRequests \cup {1} : s < minSegments}

\* C26: auto-compute sentinel: for fixed centre, radius and angles, every
\* requested segments value below minSegments (0, negatives, and positives
\* under the minimum) makes RL_DrawCircleSector and RL_DrawRing emit one and
\* the same vertex sequence, while a requested value >= minSegments is used
\* unchanged as the segment count, whatever the radius.
C26_AutoSegmentsSentinel ==
    /\ Returned("RL_DrawCircleSector") =>
           LET min == Frame.minSegments
           IN  /\ op.segments < min =>
                      \A s \in AutoRequests(min) :
                          calls = RL_DrawCircleSector(op.center, op.radius, op.startAngle,
                                                      op.endAngle, s, op.color)
               /\ op.segments >= min => Frame.segments = op.segments
    /\ (Returned("RL_DrawRing") /\ op.startAngle # op.endAngle) =>
           LET min == locals[1].minSegments
           IN  /\ op.segments < min =>
                      \A s \in AutoRequests(min) :
                          calls = RL_DrawRing(op.center, op.innerRadius, op.outerRadius,
                                              op.startAngle, op.endAngle, s, op.color)
               /\ op.segments >= min =>
                      \A f \in DOMAIN locals : locals[f].segments = op.segments

\* a full circle of radius 10 asked for with 3 segments, under the minimum of
\* 4, has been drawn with a computed count
C26_Witness ==
    /\ Returned("RL_DrawCircleSector")
    /\ op.segments = 3
    /\ Frame.minSegments = 4 /\ Frame.segments > 4
    /\ Frame.radius = 10 * One
    /\ Count(calls, "rlVertex2f") > 0

\* a line of a LINES batch, from vertex a to vertex b, is a cap line: it
\* starts at the centre, or joins two radii
IsCapLine(a, b) ==
    \/ a[2][1] = "xy"
    \/ a[2][1] = "arc" /\ b[2][1] = "arc" /\ a[2][4] # b[2][4]

\* the cap lines among the lines drawn outside the arc loop
CapLines(cs) ==
    LET v == VertexCalls(cs)
    IN  {k \in 1..(Len(v) \div 2) : IsCapLine(v[2 * k - 1], v[2 * k])}

\* C27: RL_DrawCircleSectorLines and RL_DrawRingLines emit the two cap lines
\* (from the centre, or from the inner radius, to the two arc end points) only
\* when the arc is a partial sector; for a full 360-degree arc they emit only
\* the 'segments' arc segments and no cap line.
C27_CapLinesOnlyWhenPartial ==
    (/\ pc = "returned" /\ op.name \in {"RL_DrawCircleSectorLines", "RL_DrawRingLines"}
     /\ locals # NoLocals) =>
        /\ CapLines(calls) # {} => Frame.endAngle - Frame.startAngle # 360
        /\ Frame.endAngle - Frame.startAngle = 360 =>
               \A j \in 1..Len(calls) :
                   (calls[j][1] = "rlVertex2f") => (calls[j][2][1] = "arc")

\* C28: in every state reachable from the initial binding by any sequence of
\* SetShapesTexture and drawing calls, the binding is usable:
\* texShapes.id != 0, texShapesRec.width != 0 and texShapesRec.height != 0.
C28_BindingUsable ==
    /\ texShapes.id # 0
    /\ texShapesRec.width # 0
    /\ texShapesRec.height # 0

\* SetShapesTexture has turned down texture id 0 offered with a sound source
\* rectangle, and the binding is the default one
C28_Witness ==
    /\ Returned("SetShapesTexture")
    /\ op.texture.id = 0
    /\ op.source.width # 0 /\ op.source.height # 0
    /\ texShapes = DefaultTexture
    /\ texShapesRec.width = One /\ texShapesRec.height = One

\* the locals of the other rounded-rectangle function called with the
\* arguments of the one that has returned
OtherRoundedFrames ==
    IF op.name = "RL_DrawRectangleRounded"
    THEN RoundedFrames(op.roundness <= 0, op.rec, op.roundness, op.segments, 2)
    ELSE RoundedFrames(NotRounded(op.rec, op.roundness), op.rec, op.roundness,
                       op.segments, 4)

\* C29: for the same rec, the same roundness in (0, 1] and an auto-compute
\* request (segments < 4), RL_DrawRectangleRounded and
\* RL_DrawRectangleRoundedLines derive the same per-corner segment count from
\* the corner radius, and in each of them all four corners use that single
\* count with stepLength = 90/segments.
C29_RoundedSameSegments ==
    (/\ pc = "returned"
     /\ op.name \in {"RL_DrawRectangleRounded", "RL_DrawRectangleRoundedLines"}
     /\ op.roundness > 0 /\ op.roundness <= One /\ op.segments < 4
     /\ locals # NoLocals /\ OtherRoundedFrames # NoLocals) =>
        /\ Frame.radius = OtherRoundedFrames[1].radius
        /\ Frame.segments = OtherRoundedFrames[1].segments
        /\ \A j \in 1..Len(calls) :
               (calls[j][1] = "rlVertex2f" /\ calls[j][2][1] = "arc") =>
                   (calls[j][2][5][3] = 90 /\ calls[j][2][5][4] = Frame.segments)

\* C30: RL_CheckCollisionPointPoly never divides by zero: the quotient by
\* (vn.y - vc.y) is evaluated only for an edge whose end points lie on
\* opposite sides of point.y (one with y >= point.y, the other with
\* y < point.y), so vn.y != vc.y whenever the division is reached, for every
\* point list including horizontal edges and repeated points.
C30_PointPolyDivisorNonZero ==
    Returned("RL_CheckCollisionPointPoly") =>
        \A k \in DOMAIN Frame.divisors : Frame.divisors[k] # 0

\* a point has been tested against a list with a horizontal edge and a
\* repeated point, and two of its four edges were divided by
C30_Witness ==
    /\ Returned("RL_CheckCollisionPointPoly")
    /\ op.pointCount = 5
    /\ op.points[2] = op.points[3]
    /\ op.points[1].y = op.points[2].y
    /\ Len(Frame.divisors) = 2
    /\ result = TRUE

=============================================================================
